---- MODULE Spec2Model ----
(***************************************************************************)
(* Model of the cortev session layer: the SessionState merge rule, the     *)
(* Session value and its mutators, the SessionDriver protocol with the     *)
(* MemoryDriver and the RedisDriver (retry loop, pipelined regenerate and  *)
(* invalidate), and the session middleware that reads a session, runs the  *)
(* handler and issues the terminal driver operation.  SpecDriver calls the *)
(* driver operations directly; SpecRace runs two requests at once.         *)
(*                                                                         *)
(* Encodings.  Option<T> is a sequence of length 0 or 1.  A session key is *)
(* an integer identifier (keys are opaque, only equality matters).         *)
(* SessionData is a function from a subset of Names to JSON values; a JSON *)
(* value is a record [kind, n]: the number n or the n-th random string.    *)
(***************************************************************************)
EXTENDS Integers, Sequences, FiniteSets, TLC

\* ------------------------------------------------------------------ bounds
MaxKeys == 3       \* random session keys that can be generated in one run
MaxTokens == 1     \* distinct random `_token` strings
MaxInt == 1        \* numbers stored in a session range over -MaxInt..MaxInt
MaxCalls == 2      \* mutator calls the handlers make in one run
MaxSessionCalls == 3  \* mutator calls on a Session on its own (SpecSession)
MaxRequests == 2   \* requests handled in one run
MaxTrans == 3      \* length of a chain of transitions (SpecTransition)
MaxDriverCalls == 2   \* operations called on a driver on its own (SpecDriver)
MaxKeyList == 2    \* names in the key list of a subset (SpecSubset)
MaxTtls == 2       \* time let go by, in multiples of the ttl (SpecExpiry)
MaxCounterCalls == 2  \* increment_by / decrement_by calls in one run (SpecCounter)
MaxNullCalls == 2  \* operations called on a NullDriver (SpecNull)
MaxHeaders == 2    \* Cookie headers of one request
MaxPieces == 2     \* pieces between ';' in the Cookie headers of one request
MaxCookieRequests == 2  \* requests the cookie middleware serves in one run

\* ------------------------------------------------------------------ i32
I32Max == 2147483647
I32Min == (0 - I32Max) - 1

\* --------------------------------------------------------------- Option<T>
None == <<>>
Some(x) == <<x>>
IsSome(o) == Len(o) = 1
Unwrap(o) == o[1]

\* ------------------------------------------------------------ SessionState
SessionState == {"Unchanged", "Changed", "Regenerated", "Invalidated"}

\* A slip that lets a later Changed downgrade a Regenerated/Invalidated state.
transition_downgrade(current, new_state) ==
  CASE new_state = "Invalidated" -> "Invalidated"
    [] new_state = "Regenerated" -> "Regenerated"
    [] new_state = "Changed" -> "Changed"
    [] OTHER -> current

\* A slip that lets a requested Unchanged override the current state.
transition_unchanged_overrides(current, new_state) ==
  CASE new_state = "Invalidated" -> "Invalidated"
    [] new_state = "Regenerated" -> "Regenerated"
    [] current = "Unchanged" /\ new_state = "Changed" -> "Changed"
    [] OTHER -> new_state

\* The match of Transition::transition, arm by arm, first match wins.
transition(current, new_state) ==
  CASE new_state = "Invalidated" -> "Invalidated"
    [] new_state = "Regenerated" -> "Regenerated"
    [] current = "Unchanged" /\ new_state = "Changed" -> "Changed"
    [] OTHER -> current

\* ------------------------------------------------------------- SessionData
Names == {"_token", "user_id"}
IntRange == (0 - MaxInt)..MaxInt
Tokens == 1..MaxTokens
Num(n) == [kind |-> "int", n |-> n]
Text(n) == [kind |-> "str", n |-> n]

EmptyData == [x \in {} |-> Num(0)]
DataInsert(d, k, v) == [x \in (DOMAIN d) \cup {k} |-> IF x = k THEN v ELSE d[x]]
DataRemove(d, k) == [x \in (DOMAIN d) \ {k} |-> d[x]]
DataRemoveAll(d, ks) == [x \in (DOMAIN d) \ ks |-> d[x]]

\* A new session built from SessionData::default(), without the token.
TokenSession_empty(t) == EmptyData

\* SessionData::session(): a map holding only a random `_token`.
TokenSession(t) == DataInsert(EmptyData, "_token", Text(t))

\* ----------------------------------------------------------------- Session
\* SessionBuilder::build: the given key and data, state Unchanged.
build(key, data) == [key |-> key, state |-> "Unchanged", data |-> data]

\* Session::get::<i32>(key): the number under key, None when the key is
\* absent or its value is not a number.
get_i32(s, k) ==
  IF k \in DOMAIN s.data /\ s.data[k].kind = "int" THEN Some(s.data[k].n) ELSE None

insert(s, k, v) ==
  [s EXCEPT !.data = DataInsert(s.data, k, v),
            !.state = transition(s.state, "Changed")]

\* A regenerate that leaves an Invalidated session Invalidated.
regenerate_unless_invalidated(s) ==
  IF s.state = "Invalidated" THEN s
  ELSE [s EXCEPT !.state = transition(s.state, "Regenerated")]

regenerate(s) == [s EXCEPT !.state = transition(s.state, "Regenerated")]

\* An invalidate that forgets to clear the data.
invalidate_keeps_data(s) == [s EXCEPT !.state = transition(s.state, "Invalidated")]

invalidate(s) ==
  [s EXCEPT !.data = EmptyData,
            !.state = transition(s.state, "Invalidated")]

\* i32: the sum a + b leaves the range.
add_overflows(a, b) ==
  \/ b > 0 /\ a > I32Max - b
  \/ b < 0 /\ a < I32Min - b

\* a + b in i32 without overflow checks: the sum modulo 2^32.
wrapping_add(a, b) ==
  CASE b > 0 /\ a > I32Max - b -> ((((a - I32Max) - 1) + b) - I32Max) - 1
    [] b < 0 /\ a < I32Min - b -> ((((a + I32Max) + 1) + b) + I32Max) + 1
    [] OTHER -> a + b

\* -n in i32: only i32::MIN has no negation.
neg_overflows(n) == n = I32Min
wrapping_neg(n) == IF n = I32Min THEN I32Min ELSE 0 - n

\* The value increment_by reads: self.get(&key).unwrap_or(0).
counter(s, k) == IF IsSome(get_i32(s, k)) THEN Unwrap(get_i32(s, k)) ELSE 0

\* The session increment_by returns when `value + incrementor` does not
\* panic (with overflow checks off the sum wraps).
increment_by(s, k, incrementor) ==
  insert(s, k, Num(wrapping_add(counter(s, k), incrementor)))

\* `value + incrementor` panics: overflow checks are on and the sum overflows.
increment_by_panics(checks, s, k, incrementor) ==
  checks /\ add_overflows(counter(s, k), incrementor)

decrement_by(s, k, decrementor) == increment_by(s, k, wrapping_neg(decrementor))

\* `-decrementor` or the sum inside increment_by panics.
decrement_by_panics(checks, s, k, decrementor) ==
  \/ checks /\ neg_overflows(decrementor)
  \/ increment_by_panics(checks, s, k, wrapping_neg(decrementor))

remove(s, k) ==
  [s EXCEPT !.data = DataRemove(s.data, k),
            !.state = transition(s.state, "Changed")]

\* pull returns (session, removed value); the session part is modelled.
pull(s, k) ==
  [s EXCEPT !.data = DataRemove(s.data, k),
            !.state = transition(s.state, "Changed")]

forget(s, ks) ==
  [s EXCEPT !.data = DataRemoveAll(s.data, ks),
            !.state = transition(s.state, "Changed")]

\* A flush that marks the session Invalidated instead of Changed.
flush_invalidates(s) ==
  [s EXCEPT !.data = EmptyData,
            !.state = transition(s.state, "Invalidated")]

flush(s) ==
  [s EXCEPT !.data = EmptyData,
            !.state = transition(s.state, "Changed")]

regenerate_token(s, t) ==
  [s EXCEPT !.data = DataInsert(s.data, "_token", Text(t)),
            !.state = transition(s.state, "Changed")]


\* ----------------------------------------------------------------- drivers
ForgedKey == 0                 \* a key a client made up, never generated
GenKeys == 1..MaxKeys          \* outcomes of generate_random_key(64)

\* generate_random_key(64): a key that was never generated before.  Keys are
\* opaque and interchangeable, so the least unused identifier stands for it.
FreshKeys(usedKeys) ==
  {k \in GenKeys \ usedKeys : \A j \in GenKeys \ usedKeys : k <= j}
MemoryTtl == 7200              \* MemoryDriver::default, seconds
RedisTtl == 432000             \* RedisDriverBuilder::build default, seconds

\* The two RedisDriver implementations: "redis" is the one of the session
\* crate, whose read returns Ok(None) for a missing key; "cortev_redis" is
\* the one of the cortev-session crate, whose read returns
\* Err(SessionError::NotFound) for it.  They share retry and the commands.
IsRedis(d) == d \in {"redis", "cortev_redis"}

VARIABLES
  driver,       \* which SessionDriver the layer was built with
  sessions,     \* MemoryDriver.sessions: key -> Session
  redisDb,      \* the Redis keyspace: key -> [val: JSON text, ex: seconds]
  used,         \* keys generated so far
  drv,          \* the driver call in progress and its retry state
  pc,           \* position of SessionMiddleware::call's future
  cookie,       \* Option: the session cookie of the request
  session,      \* Option: the Session handed to the handler
  session_key,  \* the middleware local `session_key` (line 96)
  response,     \* the response being returned
  mwCalls,      \* driver operations invoked by the middleware, this request
  calls,        \* mutators called by the handler, this request
  returned,     \* Option: the Session the handler put into its response
  prev,         \* summary of the previous request
  requests,     \* requests that have arrived so far
  budget,       \* mutators the handlers have called so far
  cur, trail,   \* SpecTransition: current state and the transitions applied
  hist,         \* SpecDriver: the store when the call began, the call before it
  parked,       \* SpecRace: the other request's future while this one runs
  encryption_policy,  \* CookieJar.encryption_policy
  mw_jar,       \* CookieMidleware.jar
  headers,      \* the Cookie headers of the request being served
  cookie_jar,   \* the CookieJar in the request's extensions
  res_headers,  \* the Set-Cookie headers of the response
  cpc,          \* position of the cookie middleware
  kind_out,     \* Option: the last result of cookie_kind
  served,       \* requests the cookie middleware has been called with
  touched,      \* the cookies the handler has added, this request
  now,          \* seconds gone by on the Redis server's clock
  subset,       \* Option: the SessionSubset borrowed from the session
  overflow_checks  \* the build's overflow-checks setting (on in dev, off in release)

ckVars == <<encryption_policy, mw_jar, headers, cookie_jar, res_headers, cpc,
           kind_out, served, touched>>
mwVars == <<driver, sessions, redisDb, used, drv, pc, cookie, session,
            session_key, response, mwCalls, calls, returned, prev, requests, budget,
            hist, parked, ckVars, now, subset, overflow_checks>>
trVars == <<cur, trail, hist, parked>>
vars == <<driver, sessions, redisDb, used, drv, pc, cookie, session,
          session_key, response, mwCalls, calls, returned, prev, requests, budget, cur, trail, hist, parked, ckVars, now, subset, overflow_checks>>

\* serde_json::to_string of the map: the text is the list of its members.
RECURSIVE to_json(_)
to_json(d) ==
  IF DOMAIN d = {} THEN <<>>
  ELSE LET k == CHOOSE x \in DOMAIN d : TRUE
       IN <<<<k, d[k]>>>> \o to_json(DataRemove(d, k))

\* serde_json::from_str into a map: one entry per member name, the last
\* member of a name wins.
from_json(j) ==
  [x \in {j[i][1] : i \in DOMAIN j} |->
     j[CHOOSE i \in DOMAIN j :
         j[i][1] = x /\ \A m \in DOMAIN j : j[m][1] = x => m <= i][2]]

Cmd(c, k, v) == [c |-> c, k |-> k, v |-> v]

\* A default regenerate that destroys the old key before it creates the new.
default_cmds_destroy_first(op, key, data, new_key) ==
  CASE op = "read" -> <<Cmd("GET", key, EmptyData)>>
    [] op = "write" -> <<Cmd("SET", key, data)>>
    [] op = "destroy" -> <<Cmd("DEL", key, EmptyData)>>
    [] op = "create" -> <<Cmd("SET", new_key, data)>>
    [] op = "regenerate" -> <<Cmd("DEL", key, EmptyData), Cmd("SET", new_key, data)>>
    [] op = "invalidate" -> <<Cmd("DEL", key, EmptyData), Cmd("SET", new_key, data)>>

\* A default regenerate that forgets to destroy the old key.
default_cmds_no_destroy(op, key, data, new_key) ==
  CASE op = "read" -> <<Cmd("GET", key, EmptyData)>>
    [] op = "write" -> <<Cmd("SET", key, data)>>
    [] op = "destroy" -> <<Cmd("DEL", key, EmptyData)>>
    [] op = "create" -> <<Cmd("SET", new_key, data)>>
    [] op = "regenerate" -> <<Cmd("SET", new_key, data)>>
    [] op = "invalidate" -> <<Cmd("DEL", key, EmptyData), Cmd("SET", new_key, data)>>

\* The store commands of each SessionDriver operation, in the order issued.
\* Default methods (used by MemoryDriver): create = write under a new key,
\* regenerate = create then destroy, invalidate = destroy then create.
default_cmds(op, key, data, new_key) ==
  CASE op = "read" -> <<Cmd("GET", key, EmptyData)>>
    [] op = "write" -> <<Cmd("SET", key, data)>>
    [] op = "destroy" -> <<Cmd("DEL", key, EmptyData)>>
    [] op = "create" -> <<Cmd("SET", new_key, data)>>
    [] op = "regenerate" -> <<Cmd("SET", new_key, data), Cmd("DEL", key, EmptyData)>>
    [] op = "invalidate" -> <<Cmd("DEL", key, EmptyData), Cmd("SET", new_key, data)>>

\* A pipelined regenerate that sets the old key instead of the new one.
redis_cmds_set_old(op, key, data, new_key) ==
  CASE op = "read" -> <<Cmd("GETEX", key, EmptyData)>>
    [] op = "write" -> <<Cmd("SET", key, data)>>
    [] op = "destroy" -> <<Cmd("DEL", key, EmptyData)>>
    [] op = "create" -> <<Cmd("SET", new_key, data)>>
    [] op = "regenerate" -> <<Cmd("SET", key, data), Cmd("DEL", key, EmptyData)>>
    [] op = "invalidate" -> <<Cmd("DEL", key, EmptyData), Cmd("SET", new_key, data)>>

\* A pipelined regenerate that deletes the old key before it sets the new one.
redis_cmds_del_first(op, key, data, new_key) ==
  CASE op = "read" -> <<Cmd("GETEX", key, EmptyData)>>
    [] op = "write" -> <<Cmd("SET", key, data)>>
    [] op = "destroy" -> <<Cmd("DEL", key, EmptyData)>>
    [] op = "create" -> <<Cmd("SET", new_key, data)>>
    [] op = "regenerate" -> <<Cmd("DEL", key, EmptyData), Cmd("SET", new_key, data)>>
    [] op = "invalidate" -> <<Cmd("DEL", key, EmptyData), Cmd("SET", new_key, data)>>

\* RedisDriver: GETEX, SET EX, and the pipelines of regenerate (set_ex, del)
\* and invalidate (del, set_ex); create is the default one, over write.
redis_cmds(op, key, data, new_key) ==
  CASE op = "read" -> <<Cmd("GETEX", key, EmptyData)>>
    [] op = "write" -> <<Cmd("SET", key, data)>>
    [] op = "destroy" -> <<Cmd("DEL", key, EmptyData)>>
    [] op = "create" -> <<Cmd("SET", new_key, data)>>
    [] op = "regenerate" -> <<Cmd("SET", new_key, data), Cmd("DEL", key, EmptyData)>>
    [] op = "invalidate" -> <<Cmd("DEL", key, EmptyData), Cmd("SET", new_key, data)>>

NoCall ==
  [op |-> "none", key |-> 0, data |-> EmptyData, new_key |-> 0, cmds |-> <<>>,
   i |-> 1, can_retry |-> TRUE, outcomes |-> <<>>, got |-> None,
   result |-> "none", err |-> "none"]

\* Nothing recorded yet about driver calls; no second request.
NoHist ==
  [before |-> <<>>,
   last |-> [op |-> "none", key |-> 0, data |-> <<>>, result |-> "none"],
   n |-> 0, at |-> 0]
NoParked == <<>>

\* The state of a driver call when it starts.
StartCall(d, op, key, data, new_key) ==
  [op |-> op, key |-> key, data |-> data, new_key |-> new_key,
   cmds |-> IF IsRedis(d) THEN redis_cmds(op, key, data, new_key)
            ELSE default_cmds(op, key, data, new_key),
   i |-> 1, can_retry |-> TRUE, outcomes |-> <<>>, got |-> None,
   result |-> "pending", err |-> "none"]

\* A write that keeps a record that is already there.
memory_apply_keeps_old(m, c) ==
  CASE c.c = "SET" -> [x \in (DOMAIN m) \cup {c.k} |->
                          IF x \in DOMAIN m THEN m[x] ELSE build(c.k, c.v)]
    [] c.c = "DEL" -> [x \in (DOMAIN m) \ {c.k} |-> m[x]]
    [] OTHER -> m

\* MemoryDriver::read / write / destroy on the DashMap.
memory_apply(m, c) ==
  CASE c.c = "SET" -> [x \in (DOMAIN m) \cup {c.k} |->
                          IF x = c.k THEN build(c.k, c.v) ELSE m[x]]
    [] c.c = "DEL" -> [x \in (DOMAIN m) \ {c.k} |-> m[x]]
    [] OTHER -> m

\* A server whose SET keeps the members of the old value that the new value
\* does not have.
redis_apply_merges(db, c, ttl) ==
  CASE c.c = "SET" -> [x \in (DOMAIN db) \cup {c.k} |->
                          IF x = c.k
                          THEN [val |-> IF x \in DOMAIN db
                                        THEN db[x].val \o to_json(c.v)
                                        ELSE to_json(c.v),
                                ex |-> ttl]
                          ELSE db[x]]
    [] c.c = "DEL" -> [x \in (DOMAIN db) \ {c.k} |-> db[x]]
    [] c.c = "GETEX" -> [x \in DOMAIN db |->
                          IF x = c.k THEN [db[x] EXCEPT !.ex = ttl] ELSE db[x]]
    [] OTHER -> db

\* A server asked with GET: reading a key leaves its expiry as it is.
redis_apply_get_keeps_expiry(db, c, ttl) ==
  CASE c.c = "SET" -> [x \in (DOMAIN db) \cup {c.k} |->
                          IF x = c.k THEN [val |-> to_json(c.v), ex |-> ttl]
                          ELSE db[x]]
    [] c.c = "DEL" -> [x \in (DOMAIN db) \ {c.k} |-> db[x]]
    [] OTHER -> db

\* A server whose DEL empties the keyspace.
redis_apply_del_all(db, c, ttl) ==
  CASE c.c = "SET" -> [x \in (DOMAIN db) \cup {c.k} |->
                          IF x = c.k THEN [val |-> to_json(c.v), ex |-> ttl]
                          ELSE db[x]]
    [] c.c = "DEL" -> [x \in {} |-> db[x]]
    [] c.c = "GETEX" -> [x \in DOMAIN db |->
                          IF x = c.k THEN [db[x] EXCEPT !.ex = ttl] ELSE db[x]]
    [] OTHER -> db

\* What the Redis server does with one command.  GETEX refreshes the expiry
\* of an existing key.
redis_apply(db, c, ttl) ==
  CASE c.c = "SET" -> [x \in (DOMAIN db) \cup {c.k} |->
                          IF x = c.k THEN [val |-> to_json(c.v), ex |-> ttl]
                          ELSE db[x]]
    [] c.c = "DEL" -> [x \in (DOMAIN db) \ {c.k} |-> db[x]]
    [] c.c = "GETEX" -> [x \in DOMAIN db |->
                          IF x = c.k THEN [db[x] EXCEPT !.ex = ttl] ELSE db[x]]
    [] OTHER -> db

\* A retry that sends the command again after an error of any other class.
retry_resends_on_error(st, outcome) ==
  LET logged == [st EXCEPT !.outcomes = Append(st.outcomes, outcome)]
  IN CASE outcome = "ok" -> [logged EXCEPT !.result = "ok"]
       [] outcome = "other" /\ Len(st.outcomes) = 0 ->
            [logged EXCEPT !.i = 1, !.got = None]
       [] OTHER -> [logged EXCEPT !.result = "err", !.err = "transport"]

\* A retry that starts the command again after every connection drop.
retry_until_answered(st, outcome) ==
  CASE outcome = "ok" ->
         [st EXCEPT !.outcomes = Append(st.outcomes, outcome), !.result = "ok"]
    [] outcome = "other" ->
         [st EXCEPT !.outcomes = Append(st.outcomes, outcome),
                    !.result = "err", !.err = "transport"]
    [] OTHER -> [st EXCEPT !.i = 1, !.got = None]

\* RedisDriver::retry, one turn of `while can_retry` for the outcome of the
\* attempt: Ok returns, a connection drop clears can_retry and goes back to
\* the loop test, any other error returns.  The loop test then either starts
\* the next attempt or falls through to the "Retry loop exited" error.
retry(st, outcome) ==
  LET logged == [st EXCEPT !.outcomes = Append(st.outcomes, outcome)]
      dropped == [logged EXCEPT !.can_retry = FALSE]
  IN CASE outcome = "ok" -> [logged EXCEPT !.result = "ok"]
       [] outcome = "other" -> [logged EXCEPT !.result = "err", !.err = "transport"]
       [] OTHER ->
            IF dropped.can_retry
            THEN [dropped EXCEPT !.i = 1, !.got = None]
            ELSE [dropped EXCEPT !.result = "err", !.err = "retry_exit"]

\* RedisDriver::read after the query: decode the text and build the session.
redis_read_result(st) ==
  IF IsSome(st.got) THEN Some(build(st.key, from_json(Unwrap(st.got)))) ELSE None

\* MemoryDriver::read: a clone of the stored session.
memory_read_result(st) == st.got

ttl(d) == IF IsRedis(d) THEN RedisTtl ELSE MemoryTtl


\* ----------------------------------------------------------------- cookies
\* CookieKind.
CookieKind == {"Normal", "Signed", "Private"}

\* Cookie names a policy may list, and the ones a request may carry.
CookieNames == {"id", "theme", "csrftoken"}
HeaderNames == {"id", "theme"}

\* CookieMap::new: no name is listed.
EmptyMap == [n \in {} |-> "Normal"]

\* CookieMap::insert: HashMap::insert replaces the kind recorded for the key.
map_insert(data, key, kind) ==
  [n \in DOMAIN data \cup {key} |-> IF n = key THEN kind ELSE data[n]]

\* CookieMap::get: the kind recorded for the key, if any.
map_get(data, key) == IF key \in DOMAIN data THEN Some(data[key]) ELSE None

\* Option::unwrap_or.
unwrap_or(opt, default) == IF opt = None THEN default ELSE opt[1]

\* EncryptionCookiePolicy::inclusion, ::exclusion and Default::default.
inclusion == [mode |-> "Inclusion", cookies |-> EmptyMap]
exclusion == [mode |-> "Exclusion", cookies |-> EmptyMap]
default_policy == [mode |-> "Inclusion", cookies |-> EmptyMap]

\* EncryptionCookiePolicy::insert.
policy_insert(policy, key, kind) ==
  [policy EXCEPT !.cookies = map_insert(policy.cookies, key, kind)]

cookie_kind_exclusion_normal(policy, key) ==
  unwrap_or(map_get(policy.cookies, key), "Normal")

\* EncryptionCookiePolicy::cookie_kind.
cookie_kind(policy, key) ==
  CASE policy.mode = "Inclusion" ->
         unwrap_or(map_get(policy.cookies, key), "Normal")
    [] policy.mode = "Exclusion" ->
         unwrap_or(map_get(policy.cookies, key), "Private")

\* A cookie value: its plain text under the seals put on it, outermost first.
\* "P" is an authenticated encryption with the jar's key, "S" a signature
\* with it, "X" a seal the key does not open (a ciphertext or a signature
\* with a bit flipped).
Plain(p) == [plain |-> p, seals |-> <<>>]
Seal(s, v) == [v EXCEPT !.seals = <<s>> \o v.seals]

\* PrivateJar::decrypt and SignedJar::verify: the value under the seal, or
\* nothing when the value does not carry a seal of that kind.
unseal(s, v) ==
  IF v.seals # <<>> /\ Head(v.seals) = s
  THEN Some([v EXCEPT !.seals = Tail(v.seals)])
  ELSE None

\* cookie::CookieJar: the cookies it was loaded with and the ones added since.
EmptyJar == [original |-> [n \in {} |-> Plain("")], delta |-> [n \in {} |-> Plain("")]]

\* CookieJar::add_original: HashSet::replace by name.
add_original(jar, c) ==
  [jar EXCEPT !.original =
     [n \in DOMAIN jar.original \cup {c.name} |->
        IF n = c.name THEN c.value ELSE jar.original[n]]]

\* CookieJar::add: the cookie joins the delta, replacing one of its name.
jar_add(jar, c) ==
  [jar EXCEPT !.delta =
     [n \in DOMAIN jar.delta \cup {c.name} |->
        IF n = c.name THEN c.value ELSE jar.delta[n]]]

\* CookieJar::get: the delta shadows the originals.
jar_get(jar, name) ==
  IF name \in DOMAIN jar.delta THEN Some(jar.delta[name])
  ELSE IF name \in DOMAIN jar.original THEN Some(jar.original[name])
  ELSE None

\* PrivateJar::get / SignedJar::get: the cookie of the parent jar, unsealed.
sealed_get(s, jar, name) ==
  IF jar_get(jar, name) = None THEN None ELSE unseal(s, jar_get(jar, name)[1])

\* One piece of a Cookie header between two ';': the text before the first
\* '=', whether there is an '=', the text after it, and whether all its bytes
\* are visible ASCII.
Pair(n, v) == [name |-> n, eq |-> TRUE, value |-> v, ascii |-> TRUE]

\* HeaderValue::to_str: the text, unless some byte is not visible ASCII.
to_str(value) ==
  IF \A i \in 1..Len(value) : value[i].ascii THEN Some(value) ELSE None

\* Cookie::parse_encoded: a name, '=' and a value; no '=' or an empty name is
\* an error.
parse_encoded(piece) ==
  IF piece.eq /\ piece.name # ""
  THEN Some([name |-> piece.name, value |-> piece.value])
  ELSE None

RECURSIVE parse_all(_)
\* split(';') then filter_map(parse_encoded .. ok()) over one header text.
parse_all(pieces) ==
  IF pieces = <<>> THEN <<>>
  ELSE (IF parse_encoded(Head(pieces)) = None THEN <<>>
        ELSE parse_encoded(Head(pieces))) \o parse_all(Tail(pieces))

RECURSIVE cookies_from_request(_)
\* cookies_from_request: the cookies of every Cookie header, in header order.
cookies_from_request(hs) ==
  IF hs = <<>> THEN <<>>
  ELSE (IF to_str(Head(hs)) = None THEN <<>> ELSE parse_all(to_str(Head(hs))[1]))
       \o cookies_from_request(Tail(hs))

\* typed_cookies_from_request: each cookie with the kind of its name.
typed_cookies_from_request(hs, policy) ==
  LET cookies == cookies_from_request(hs)
  IN  [i \in 1..Len(cookies) |->
         [cookie |-> cookies[i], kind |-> cookie_kind(policy, cookies[i].name)]]

\* The body of the loop of CookieJar::from_headers for one typed cookie.
load(jar, tc) ==
  CASE tc.kind = "Normal" -> add_original(jar, tc.cookie)
    [] tc.kind = "Private" ->
         add_original(jar, [tc.cookie EXCEPT !.value = Seal("P", tc.cookie.value)])
    [] tc.kind = "Signed" ->
         add_original(jar, [tc.cookie EXCEPT !.value = Seal("S", tc.cookie.value)])

RECURSIVE load_all(_, _)
load_all(jar, tcs) ==
  IF tcs = <<>> THEN jar ELSE load_all(load(jar, Head(tcs)), Tail(tcs))

\* CookieJar::from_headers: the jar it is called on after the loop; the jar
\* it returns is a clone of that one.
from_headers(jar, policy, hs) ==
  load_all(jar, typed_cookies_from_request(hs, policy))

\* The orders in which a HashSet may be iterated.
Orderings(S) ==
  {s \in [1..Cardinality(S) -> S] : \A i, j \in DOMAIN s : i # j => s[i] # s[j]}

set_cookies_of_all(jar) ==
  Orderings({[name |-> n, value |-> jar_get(jar, n)[1]] :
               n \in DOMAIN jar.delta \cup DOMAIN jar.original})

\* set_cookies: a Set-Cookie header is appended for each cookie of
\* jar.delta(); Cookie::encoded percent-encodes, so the text always parses as
\* a header value.
set_cookies(jar) ==
  Orderings({[name |-> n, value |-> jar.delta[n]] : n \in DOMAIN jar.delta})

\* The cookie layer before any request, and in the runs that have none.
CookiesIdle ==
  /\ encryption_policy = default_policy
  /\ mw_jar = EmptyJar
  /\ headers = <<>>
  /\ cookie_jar = EmptyJar
  /\ res_headers = <<>>
  /\ cpc = "ready"
  /\ kind_out = None
  /\ served = 0
  /\ touched = EmptyMap

\* -------------------------------------------------------------- middleware
EmptyStore == [x \in {} |-> 0]
NoResponse == [kind |-> "none", ext |-> None, set_cookie |-> <<>>]
NoPrev == [kind |-> "none", returned |-> None, key_in |-> 0, set_cookie |-> <<>>]
Call(op, ks, n) == [op |-> op, ks |-> ks, n |-> n]
MwCall(op, key, data) == [op |-> op, key |-> key, data |-> data]

\* A session cookie whose Max-Age is a constant of the middleware.
session_cookie_fixed_age(d, key) ==
  [name |-> "id", value |-> key, http_only |-> TRUE, max_age |-> MemoryTtl]

\* The session cookie the middleware builds (service.rs 134-143).
session_cookie_for(d, key) ==
  [name |-> "id", value |-> key, http_only |-> TRUE, max_age |-> ttl(d)]

\* A terminal match that writes where it should regenerate.
terminal_op_write_only(state) ==
  CASE state = "Changed" -> "write"
    [] state = "Regenerated" -> "write"
    [] state = "Invalidated" -> "invalidate"
    [] OTHER -> "none"

\* The match on the final state (service.rs 113-118).
terminal_op(state) ==
  CASE state = "Changed" -> "write"
    [] state = "Regenerated" -> "regenerate"
    [] state = "Invalidated" -> "invalidate"
    [] OTHER -> "none"

\* What a successful driver call returns as key.
driver_key(st) == IF st.op = "write" THEN st.key ELSE st.new_key

\* A read that answers a miss with an empty session under the key asked for.
read_result_adopts_key(d, st) ==
  IF IsSome(st.got)
  THEN (IF IsRedis(d) THEN redis_read_result(st) ELSE memory_read_result(st))
  ELSE Some(build(st.key, EmptyData))

\* What a successful read returns.
read_result(d, st) ==
  IF IsRedis(d) THEN redis_read_result(st) ELSE memory_read_result(st)

Init ==
  /\ driver \in {"memory", "redis"}
  /\ sessions = EmptyStore
  /\ redisDb = EmptyStore
  /\ used = {}
  /\ drv = NoCall
  /\ pc = "idle"
  /\ cookie = None
  /\ session = None
  /\ session_key = 0
  /\ response = NoResponse
  /\ mwCalls = <<>>
  /\ calls = <<>>
  /\ returned = None
  /\ prev = NoPrev
  /\ requests = 0
  /\ budget = 0
  /\ cur = "Unchanged"
  /\ trail = <<>>
  /\ hist = NoHist
  /\ parked = NoParked
  /\ CookiesIdle
  /\ now = 0
  /\ subset = None
  /\ overflow_checks = TRUE

\* A request arrives, with no session cookie, with a key issued earlier or
\* with a key the client made up.
Request(c) ==
  /\ pc \in {"idle", "done"}
  /\ requests < MaxRequests
  /\ requests' = requests + 1
  /\ cookie' = c
  /\ pc' = "start"
  /\ session' = None
  /\ session_key' = 0
  /\ response' = NoResponse
  /\ mwCalls' = <<>>
  /\ calls' = <<>>
  /\ drv' = NoCall
  /\ returned' = None
  /\ prev' = [kind |-> response.kind, returned |-> returned,
              key_in |-> session_key,
              set_cookie |-> response.set_cookie]
  /\ UNCHANGED <<driver, sessions, redisDb, used, budget, cur, trail, hist, parked, ckVars, now, subset, overflow_checks>>

\* service.rs 65-67: the cookie is present, driver.read(key).
StartRead ==
  /\ pc = "start"
  /\ IsSome(cookie)
  /\ drv' = StartCall(driver, "read", Unwrap(cookie), EmptyData, 0)
  /\ mwCalls' = Append(mwCalls, MwCall("read", Unwrap(cookie), EmptyData))
  /\ pc' = "read"
  /\ UNCHANGED <<driver, sessions, redisDb, used, cookie, session, session_key,
                 response, calls, returned, prev, requests, budget, cur, trail, hist, parked, ckVars, now, subset, overflow_checks>>

\* service.rs 83-84: SessionData::session() and driver.create(data).
BeginCreate(t, k) ==
  /\ drv' = StartCall(driver, "create", 0, TokenSession(t), k)
  /\ mwCalls' = Append(mwCalls, MwCall("create", 0, TokenSession(t)))
  /\ used' = used \cup {k}
  /\ pc' = "create"
  /\ UNCHANGED <<driver, sessions, redisDb, cookie, session, session_key,
                 response, calls, returned, prev, requests, budget, cur, trail, hist, parked, ckVars, now, subset, overflow_checks>>

\* service.rs 76-78, 82-84: no cookie, so no read.
CreateNoCookie(t, k) ==
  /\ pc = "start"
  /\ cookie = None
  /\ BeginCreate(t, k)

\* service.rs 68, 82-84: the read found no session.
CreateOnMiss(t, k) ==
  /\ pc = "read"
  /\ drv.result = "ok"
  /\ read_result(driver, drv) = None
  /\ BeginCreate(t, k)

\* service.rs 68, 80-81, 96-98: the read found a session.
InstallRead ==
  /\ pc = "read"
  /\ drv.result = "ok"
  /\ IsSome(read_result(driver, drv))
  /\ session' = read_result(driver, drv)
  /\ session_key' = Unwrap(read_result(driver, drv)).key
  /\ pc' = "handler"
  /\ UNCHANGED <<driver, sessions, redisDb, used, drv, cookie, response, mwCalls,
                 calls, returned, prev, requests, budget, cur, trail, hist, parked, ckVars, now, subset, overflow_checks>>

\* service.rs 85, 93, 96-98: the created session is built and installed.
InstallCreated ==
  /\ pc = "create"
  /\ drv.result = "ok"
  /\ session' = Some(build(driver_key(drv), drv.data))
  /\ session_key' = driver_key(drv)
  /\ pc' = "handler"
  /\ UNCHANGED <<driver, sessions, redisDb, used, drv, cookie, response, mwCalls,
                 calls, returned, prev, requests, budget, cur, trail, hist, parked, ckVars, now, subset, overflow_checks>>

\* An error path that still appends the session cookie to the response.
ErrorResponse_with_cookie ==
  /\ pc \in {"read", "create", "terminal"}
  /\ drv.result = "err"
  /\ response' = [kind |-> "error", ext |-> None,
                  set_cookie |-> <<session_cookie_for(driver, session_key)>>]
  /\ pc' = "done"
  /\ UNCHANGED <<driver, sessions, redisDb, used, drv, cookie, session,
                 session_key, mwCalls, calls, returned, prev, requests, budget,
                 cur, trail, hist, parked, ckVars, now, subset, overflow_checks>>

\* service.rs 69-74, 86-91, 121-126: a driver error ends the request with
\* the error handler's response.
ErrorResponse ==
  /\ pc \in {"read", "create", "terminal"}
  /\ drv.result = "err"
  /\ response' = [kind |-> "error", ext |-> None, set_cookie |-> <<>>]
  /\ pc' = "done"
  /\ UNCHANGED <<driver, sessions, redisDb, used, drv, cookie, session,
                 session_key, mwCalls, calls, returned, prev, requests, budget, cur, trail, hist, parked, ckVars, now, subset, overflow_checks>>


\* ----------------------------------------------------------------- handler
DataNames == Names \ {"_token"}
InsertValues == {Num(n) : n \in 1..MaxInt}
Amounts == 1..MaxInt

\* Mutator calls allowed in one run; a Session on its own has no driver.
CallBound == IF driver = "none" THEN MaxSessionCalls ELSE MaxCalls

\* The handler calls one mutator on the session it holds.
Mutate(call, s) ==
  /\ pc = "handler"
  /\ budget < CallBound
  /\ budget' = budget + 1
  /\ session' = Some(s)
  /\ calls' = Append(calls, call)
  /\ UNCHANGED <<driver, sessions, redisDb, used, drv, pc, cookie, session_key,
                 response, mwCalls, returned, prev, requests, cur, trail, hist, parked, ckVars, now, subset, overflow_checks>>

Insert(k, v) == Mutate(Call("insert", {k}, v.n), insert(Unwrap(session), k, v))
Remove(k) == Mutate(Call("remove", {k}, 0), remove(Unwrap(session), k))
Pull(k) == Mutate(Call("pull", {k}, 0), pull(Unwrap(session), k))
Forget(ks) == Mutate(Call("forget", ks, 0), forget(Unwrap(session), ks))
Flush == Mutate(Call("flush", {}, 0), flush(Unwrap(session)))
RegenerateToken(t) ==
  Mutate(Call("regenerate_token", {}, t), regenerate_token(Unwrap(session), t))
Regenerate == Mutate(Call("regenerate", {}, 0), regenerate(Unwrap(session)))
Invalidate == Mutate(Call("invalidate", {}, 0), invalidate(Unwrap(session)))

\* Stored numbers are kept within IntRange.
IncrementBy(k, n) ==
  /\ pc = "handler"
  /\ increment_by(Unwrap(session), k, n).data[k].n \in IntRange
  /\ Mutate(Call("increment_by", {k}, n), increment_by(Unwrap(session), k, n))

DecrementBy(k, n) ==
  /\ pc = "handler"
  /\ decrement_by(Unwrap(session), k, n).data[k].n \in IntRange
  /\ Mutate(Call("decrement_by", {k}, n), decrement_by(Unwrap(session), k, n))

\* The handler returns, giving up the session it took from the request;
\* IntoResponseParts for Session puts the session into the response
\* extensions when the handler returns it.
Return(ext) ==
  /\ pc = "handler"
  /\ response' = [kind |-> "handler", ext |-> ext, set_cookie |-> <<>>]
  /\ returned' = ext
  /\ session' = None
  /\ calls' = <<>>
  /\ pc' = "after"
  /\ UNCHANGED <<driver, sessions, redisDb, used, drv, cookie, session_key,
                 mwCalls, prev, requests, budget, cur, trail, hist, parked, ckVars, now, subset, overflow_checks>>

ReturnSession == Return(session)
ReturnPlain == Return(None)

\* ------------------------------------------------- after the handler
\* service.rs 134-145: the session cookie is appended to the response, with
\* the key bound at line 107 (the key bound at line 96 is left as it is).
Finish(key) ==
  /\ session_key' = session_key
  /\ response' = [response EXCEPT
                    !.ext = None,
                    !.set_cookie = Append(response.set_cookie,
                                          session_cookie_for(driver, key))]
  /\ pc' = "done"

\* service.rs 105-116: the response carries a session whose state asks for
\* a driver operation; regenerate and invalidate draw a new random key.
TerminalCall(k) ==
  /\ pc = "after"
  /\ IsSome(response.ext)
  /\ LET s == Unwrap(response.ext)
         op == terminal_op(s.state)
     IN /\ op # "none"
        /\ IF op = "write" THEN k = 0 ELSE k \in FreshKeys(used)
        /\ drv' = StartCall(driver, op, s.key, s.data, k)
        /\ mwCalls' = Append(mwCalls, MwCall(op, s.key, s.data))
        /\ used' = IF op = "write" THEN used ELSE used \cup {k}
  /\ response' = [response EXCEPT !.ext = None]
  /\ pc' = "terminal"
  /\ UNCHANGED <<driver, sessions, redisDb, cookie, session, session_key,
                 calls, returned, prev, requests, budget, cur, trail, hist, parked, ckVars, now, subset, overflow_checks>>

\* service.rs 117: Unchanged, Ok(key) without a driver operation.
TerminalUnchanged ==
  /\ pc = "after"
  /\ IsSome(response.ext)
  /\ terminal_op(Unwrap(response.ext).state) = "none"
  /\ Finish(Unwrap(response.ext).key)
  /\ UNCHANGED <<driver, sessions, redisDb, used, drv, cookie, session,
                 mwCalls, calls, returned, prev, requests, budget, cur, trail, hist, parked, ckVars, now, subset, overflow_checks>>

\* A fall-back that forgets the key bound before the handler.
TerminalNoSession_default_key ==
  /\ pc = "after"
  /\ response.ext = None
  /\ Finish(ForgedKey)
  /\ UNCHANGED <<driver, sessions, redisDb, used, drv, cookie, session,
                 mwCalls, calls, returned, prev, requests, budget, cur, trail,
                 hist, parked, ckVars, now, subset, overflow_checks>>

\* service.rs 128-132: no session in the response, the key installed before
\* the handler is kept.
TerminalNoSession ==
  /\ pc = "after"
  /\ response.ext = None
  /\ Finish(session_key)
  /\ UNCHANGED <<driver, sessions, redisDb, used, drv, cookie, session,
                 mwCalls, calls, returned, prev, requests, budget, cur, trail, hist, parked, ckVars, now, subset, overflow_checks>>

\* service.rs 119-120: the terminal driver operation returned a key.
TerminalDone ==
  /\ pc = "terminal"
  /\ drv.result = "ok"
  /\ Finish(driver_key(drv))
  /\ UNCHANGED <<driver, sessions, redisDb, used, drv, cookie, session,
                 mwCalls, calls, returned, prev, requests, budget, cur, trail, hist, parked, ckVars, now, subset, overflow_checks>>

\* ------------------------------------------------------------ driver steps
\* The next store command of the call takes effect: one awaited
\* MemoryDriver operation, or one command of the batch on the Redis server.
DriverStep ==
  /\ drv.result = "pending"
  /\ drv.i <= Len(drv.cmds)
  /\ LET c == drv.cmds[drv.i]
     IN IF IsRedis(driver)
        THEN /\ redisDb' = redis_apply(redisDb, c, ttl(driver))
             /\ sessions' = sessions
             /\ drv' = [drv EXCEPT
                          !.i = drv.i + 1,
                          !.got = IF c.c = "GETEX" /\ c.k \in DOMAIN redisDb
                                  THEN Some(redisDb[c.k].val) ELSE drv.got]
        ELSE /\ sessions' = memory_apply(sessions, c)
             /\ redisDb' = redisDb
             /\ drv' = [drv EXCEPT
                          !.i = drv.i + 1,
                          !.got = IF c.c = "GET" /\ c.k \in DOMAIN sessions
                                  THEN Some(sessions[c.k]) ELSE drv.got]
  /\ UNCHANGED <<driver, used, pc, cookie, session, session_key, response,
                 mwCalls, calls, returned, prev, requests, budget, cur, trail, hist, parked, ckVars, now, subset, overflow_checks>>

\* Every MemoryDriver operation of the call has returned Ok.
MemoryReturn ==
  /\ driver = "memory"
  /\ drv.result = "pending"
  /\ drv.i > Len(drv.cmds)
  /\ drv' = [drv EXCEPT !.result = "ok"]
  /\ UNCHANGED <<driver, sessions, redisDb, used, pc, cookie, session,
                 session_key, response, mwCalls, calls, returned, prev, requests, budget, cur, trail, hist, parked, ckVars, now, subset, overflow_checks>>

\* The outcome of one attempt reaches RedisDriver::retry.
Attempt(outcome) ==
  /\ IsRedis(driver)
  /\ drv.result = "pending"
  /\ drv' = retry(drv, outcome)
  /\ UNCHANGED <<driver, sessions, redisDb, used, pc, cookie, session,
                 session_key, response, mwCalls, calls, returned, prev, requests, budget, cur, trail, hist, parked, ckVars, now, subset, overflow_checks>>

\* query_async returns Ok once the server has run the whole batch.
AttemptOk == drv.i > Len(drv.cmds) /\ Attempt("ok")
\* The connection drops: before, during or after the batch runs.
AttemptDropped == Attempt("dropped")
\* Any other transport or server error.
AttemptOther == Attempt("other")

\* generate_random_key(40) for a new session: tokens are opaque and
\* interchangeable, so the least one stands for the first token drawn.
FirstToken == {t \in Tokens : \A u \in Tokens : t <= u}

Cookies == {None} \cup {Some(k) : k \in used \cup {ForgedKey}}

Next ==
  \/ \E c \in Cookies : Request(c)
  \/ StartRead
  \/ \E t \in FirstToken, k \in FreshKeys(used) : CreateNoCookie(t, k)
  \/ \E t \in FirstToken, k \in FreshKeys(used) : CreateOnMiss(t, k)
  \/ InstallRead
  \/ InstallCreated
  \/ ErrorResponse
  \/ \E k \in DataNames, v \in InsertValues : Insert(k, v)
  \/ \E k \in Names : Remove(k)
  \/ \E k \in Names : Pull(k)
  \/ \E ks \in SUBSET Names : Forget(ks)
  \/ Flush
  \/ \E k \in DataNames, n \in Amounts : IncrementBy(k, n)
  \/ \E k \in DataNames, n \in Amounts : DecrementBy(k, n)
  \/ \E t \in Tokens : RegenerateToken(t)
  \/ Regenerate
  \/ Invalidate
  \/ ReturnSession
  \/ ReturnPlain
  \/ \E k \in GenKeys \cup {0} : TerminalCall(k)
  \/ TerminalUnchanged
  \/ TerminalNoSession
  \/ TerminalDone
  \/ DriverStep
  \/ MemoryReturn
  \/ AttemptOk
  \/ AttemptDropped
  \/ AttemptOther

Spec == Init /\ [][Next]_vars

\* ------------------------------------------- the merge rule on its own
InitTransition ==
  /\ driver = "memory"
  /\ sessions = EmptyStore
  /\ redisDb = EmptyStore
  /\ used = {}
  /\ drv = NoCall
  /\ pc = "idle"
  /\ cookie = None
  /\ session = None
  /\ session_key = 0
  /\ response = NoResponse
  /\ mwCalls = <<>>
  /\ calls = <<>>
  /\ returned = None
  /\ prev = NoPrev
  /\ requests = 0
  /\ budget = 0
  /\ cur \in SessionState
  /\ trail = <<>>
  /\ hist = NoHist
  /\ parked = NoParked
  /\ CookiesIdle
  /\ now = 0
  /\ subset = None
  /\ overflow_checks = TRUE

\* state.transition(new_state) applied to the current state.
ApplyTransition(t) ==
  /\ Len(trail) < MaxTrans
  /\ cur' = transition(cur, t)
  /\ trail' = Append(trail, <<cur, t>>)
  /\ UNCHANGED mwVars

NextTransition == \E t \in SessionState : ApplyTransition(t)

SpecTransition == InitTransition /\ [][NextTransition]_vars


\* ------------------------------------------- a Session value on its own
\* A session as a driver builds it (state Unchanged), with any data.
InitialData ==
  {d \in UNION {[D -> {Text(t) : t \in Tokens} \cup {Num(n) : n \in IntRange}] :
                  D \in SUBSET Names} :
     /\ "_token" \in DOMAIN d => d["_token"].kind = "str"
     /\ "user_id" \in DOMAIN d => d["user_id"].kind = "int"}

InitSession ==
  /\ driver = "none"
  /\ sessions = EmptyStore
  /\ redisDb = EmptyStore
  /\ used = {1}
  /\ drv = NoCall
  /\ pc = "handler"
  /\ cookie = None
  /\ session \in {Some(build(1, d)) : d \in InitialData}
  /\ session_key = 1
  /\ response = NoResponse
  /\ mwCalls = <<>>
  /\ calls = <<>>
  /\ returned = None
  /\ prev = NoPrev
  /\ requests = 1
  /\ budget = 0
  /\ cur = "Unchanged"
  /\ trail = <<>>
  /\ hist = NoHist
  /\ parked = NoParked
  /\ CookiesIdle
  /\ now = 0
  /\ subset = None
  /\ overflow_checks = TRUE

NextSession ==
  \/ \E k \in DataNames, v \in InsertValues : Insert(k, v)
  \/ \E k \in Names : Remove(k)
  \/ \E k \in Names : Pull(k)
  \/ \E ks \in SUBSET Names : Forget(ks)
  \/ Flush
  \/ \E k \in DataNames, n \in Amounts : IncrementBy(k, n)
  \/ \E k \in DataNames, n \in Amounts : DecrementBy(k, n)
  \/ \E t \in Tokens : RegenerateToken(t)
  \/ Regenerate
  \/ Invalidate

SpecSession == InitSession /\ [][NextSession]_vars


\* ------------------------------------------- a driver called on its own
\* Session data handed to the driver: none, or a token and a user id.
DriverData ==
  {EmptyData} \cup
  {DataInsert(TokenSession(t), "user_id", Num(1)) : t \in FirstToken}

\* The keyspace of the driver in use.
Store == IF IsRedis(driver) THEN redisDb ELSE sessions

\* A value under a Redis key that this program did not write and that is
\* not the JSON text of a map.
ForeignText == <<<<"?">>>>
ForeignDb == [x \in {ForgedKey} |-> [val |-> ForeignText, ex |-> RedisTtl]]

\* SessionData::from_json succeeds on the JSON text of a map only.
decodes(j) == \A i \in DOMAIN j : Len(j[i]) = 2

\* RedisDriver::read after the query returned: a value that does not decode
\* makes read return the decoding error (the `?` after from_json), and the
\* cortev-session driver returns Err(SessionError::NotFound) for no value.
read_returns(d, st) ==
  IF IsRedis(d) /\ st.op = "read" /\ st.result = "ok"
  THEN IF IsSome(st.got) /\ ~decodes(Unwrap(st.got))
       THEN [st EXCEPT !.result = "err", !.err = "decode"]
       ELSE IF d = "cortev_redis" /\ st.got = None
       THEN [st EXCEPT !.result = "err", !.err = "not_found"]
       ELSE st
  ELSE st

\* The stores a driver can hold when a caller comes to it: nothing, or the
\* record an earlier create(data) left under the first key; a Redis keyspace
\* may also hold a foreign value.
InitStores(d) ==
  IF IsRedis(d)
  THEN {EmptyStore, ForeignDb} \cup
       {redis_apply(EmptyStore, Cmd("SET", 1, data), RedisTtl) : data \in DriverData}
  ELSE {EmptyStore} \cup
       {memory_apply(EmptyStore, Cmd("SET", 1, data)) : data \in DriverData}

InitDriver ==
  /\ driver \in {"memory", "redis", "cortev_redis"}
  /\ sessions \in (IF driver = "memory" THEN InitStores(driver) ELSE {EmptyStore})
  /\ redisDb \in (IF IsRedis(driver) THEN InitStores(driver) ELSE {EmptyStore})
  /\ used = DOMAIN sessions \cup (DOMAIN redisDb \ {ForgedKey})
  /\ drv = NoCall
  /\ pc = "idle"
  /\ cookie = None
  /\ session = None
  /\ session_key = 0
  /\ response = NoResponse
  /\ mwCalls = <<>>
  /\ calls = <<>>
  /\ returned = None
  /\ prev = NoPrev
  /\ requests = 0
  /\ budget = 0
  /\ cur = "Unchanged"
  /\ trail = <<>>
  /\ hist = NoHist
  /\ parked = NoParked
  /\ CookiesIdle
  /\ now = 0
  /\ subset = None
  /\ overflow_checks = TRUE

\* A caller invokes one operation of the driver once the one before it has
\* returned.
DriverCall(op, key, data, new_key) ==
  /\ drv.result # "pending"
  /\ read_returns(driver, drv) = drv
  /\ hist.n < MaxDriverCalls
  /\ drv' = StartCall(driver, op, key, data, new_key)
  /\ used' = IF new_key = 0 THEN used ELSE used \cup {new_key}
  /\ hist' = [before |-> Store,
              last |-> [op |-> drv.op, key |-> drv.key, data |-> drv.data,
                        result |-> drv.result],
              n |-> hist.n + 1, at |-> now]
  /\ UNCHANGED <<driver, sessions, redisDb, pc, cookie, session, session_key,
                 response, mwCalls, calls, returned, prev, requests, budget,
                 cur, trail, parked, ckVars, now, subset, overflow_checks>>

CallKeys == used \cup {ForgedKey}

Read(key) == DriverCall("read", key, EmptyData, 0)
Write(key, data) == DriverCall("write", key, data, 0)
Destroy(key) == DriverCall("destroy", key, EmptyData, 0)
Create(data, k) == DriverCall("create", 0, data, k)
DriverRegenerate(key, data, k) == DriverCall("regenerate", key, data, k)
DriverInvalidate(key, data, k) == DriverCall("invalidate", key, data, k)

\* RedisDriver::read turns what the query returned into its result.
ReadReturn ==
  /\ read_returns(driver, drv) # drv
  /\ drv' = read_returns(driver, drv)
  /\ UNCHANGED <<driver, sessions, redisDb, used, pc, cookie, session,
                 session_key, response, mwCalls, calls, returned, prev, requests,
                 budget, cur, trail, hist, parked, ckVars, now, subset, overflow_checks>>

NextDriver ==
  \/ \E key \in CallKeys : Read(key)
  \/ \E key \in CallKeys, data \in DriverData : Write(key, data)
  \/ \E key \in CallKeys : Destroy(key)
  \/ \E data \in DriverData, k \in FreshKeys(used) : Create(data, k)
  \/ \E key \in CallKeys, data \in DriverData, k \in FreshKeys(used) :
       DriverRegenerate(key, data, k)
  \/ \E key \in CallKeys, data \in DriverData, k \in FreshKeys(used) :
       DriverInvalidate(key, data, k)
  \/ ReadReturn
  \/ DriverStep
  \/ MemoryReturn
  \/ AttemptOk
  \/ AttemptDropped
  \/ AttemptOther

SpecDriver == InitDriver /\ [][NextDriver]_vars


\* ------------------------------------------- two requests at the same time
\* The future of SessionMiddleware::call for one request: its locals and the
\* driver call it is awaiting.
Context ==
  [drv |-> drv, pc |-> pc, cookie |-> cookie, session |-> session,
   session_key |-> session_key, response |-> response, mwCalls |-> mwCalls,
   calls |-> calls, returned |-> returned]

\* A request that has just arrived with the cookie c.
Arrived(c) ==
  [drv |-> NoCall, pc |-> "start", cookie |-> c, session |-> None,
   session_key |-> 0, response |-> NoResponse, mwCalls |-> <<>>,
   calls |-> <<>>, returned |-> None]

\* The record an earlier request left under the first key.
RaceStores(d) ==
  IF IsRedis(d)
  THEN {redis_apply(EmptyStore, Cmd("SET", 1, TokenSession(t)), RedisTtl) :
          t \in FirstToken}
  ELSE {memory_apply(EmptyStore, Cmd("SET", 1, TokenSession(t))) : t \in FirstToken}

\* Two requests arrive with the cookie of the same session.
InitRace ==
  /\ driver \in {"memory", "redis"}
  /\ sessions \in (IF driver = "memory" THEN RaceStores(driver) ELSE {EmptyStore})
  /\ redisDb \in (IF driver = "redis" THEN RaceStores(driver) ELSE {EmptyStore})
  /\ used = {1}
  /\ drv = NoCall
  /\ pc = "start"
  /\ cookie = Some(1)
  /\ session = None
  /\ session_key = 0
  /\ response = NoResponse
  /\ mwCalls = <<>>
  /\ calls = <<>>
  /\ returned = None
  /\ prev = NoPrev
  /\ requests = 2
  /\ budget = 0
  /\ cur = "Unchanged"
  /\ trail = <<>>
  /\ hist = NoHist
  /\ parked = Arrived(Some(1))
  /\ CookiesIdle
  /\ now = 0
  /\ subset = None
  /\ overflow_checks = TRUE

\* The executor leaves the running future where it is and polls the other.
Switch ==
  /\ parked # NoParked
  /\ parked.pc \notin {"done", "cancelled"}
  /\ parked' = Context
  /\ drv' = parked.drv
  /\ pc' = parked.pc
  /\ cookie' = parked.cookie
  /\ session' = parked.session
  /\ session_key' = parked.session_key
  /\ response' = parked.response
  /\ mwCalls' = parked.mwCalls
  /\ calls' = parked.calls
  /\ returned' = parked.returned
  /\ UNCHANGED <<driver, sessions, redisDb, used, prev, requests, budget,
                 cur, trail, hist, ckVars, now, subset, overflow_checks>>

\* A cancellation that still saves the session the handler was working on.
Cancel_saves ==
  /\ pc = "handler"
  /\ pc' = "cancelled"
  /\ session' = None
  /\ calls' = <<>>
  /\ sessions' = IF IsRedis(driver) THEN sessions
                 ELSE memory_apply(sessions, Cmd("SET", Unwrap(session).key,
                                                 Unwrap(session).data))
  /\ redisDb' = IF IsRedis(driver)
                THEN redis_apply(redisDb, Cmd("SET", Unwrap(session).key,
                                              Unwrap(session).data), ttl(driver))
                ELSE redisDb
  /\ UNCHANGED <<driver, used, drv, cookie, session_key,
                 response, mwCalls, returned, prev, requests, budget,
                 cur, trail, hist, parked, ckVars, now, subset, overflow_checks>>

\* The request is cancelled while the middleware awaits the handler
\* (service.rs 99): the future is dropped and nothing after the await runs.
Cancel ==
  /\ pc = "handler"
  /\ pc' = "cancelled"
  /\ session' = None
  /\ calls' = <<>>
  /\ UNCHANGED <<driver, sessions, redisDb, used, drv, cookie, session_key,
                 response, mwCalls, returned, prev, requests, budget,
                 cur, trail, hist, parked, ckVars, now, subset, overflow_checks>>

\* The handlers call insert, remove, flush, regenerate_token, regenerate and
\* invalidate; pull, forget, increment and decrement change a session as
\* remove and insert do.
NextRace ==
  \/ StartRead
  \/ \E t \in FirstToken, k \in FreshKeys(used) : CreateOnMiss(t, k)
  \/ InstallRead
  \/ InstallCreated
  \/ ErrorResponse
  \/ \E k \in DataNames, v \in InsertValues : Insert(k, v)
  \/ \E k \in Names : Remove(k)
  \/ Flush
  \/ \E t \in Tokens : RegenerateToken(t)
  \/ Regenerate
  \/ Invalidate
  \/ ReturnSession
  \/ ReturnPlain
  \/ \E k \in GenKeys \cup {0} : TerminalCall(k)
  \/ TerminalUnchanged
  \/ TerminalNoSession
  \/ TerminalDone
  \/ DriverStep
  \/ MemoryReturn
  \/ AttemptOk
  \/ AttemptDropped
  \/ AttemptOther
  \/ Switch
  \/ Cancel

SpecRace == InitRace /\ [][NextRace]_vars

\* ------------------------------------------- a cookie policy on its own
\* No session layer: the part of the state the cookie layer never touches.
NoSessionLayer ==
  /\ driver = "none"
  /\ sessions = EmptyStore
  /\ redisDb = EmptyStore
  /\ used = {}
  /\ drv = NoCall
  /\ pc = "idle"
  /\ cookie = None
  /\ session = None
  /\ session_key = 0
  /\ response = NoResponse
  /\ mwCalls = <<>>
  /\ calls = <<>>
  /\ returned = None
  /\ prev = NoPrev
  /\ requests = 0
  /\ budget = 0
  /\ cur = "Unchanged"
  /\ trail = <<>>
  /\ hist = NoHist
  /\ parked = NoParked

sessVarsNoSubset ==
  <<driver, sessions, redisDb, used, drv, pc, cookie, session, session_key,
    response, mwCalls, calls, returned, prev, requests, budget, cur, trail,
    hist, parked, now, overflow_checks>>
sessVars == <<driver, sessions, redisDb, used, drv, pc, cookie, session,
              session_key, response, mwCalls, calls, returned, prev, requests,
              budget, cur, trail, hist, parked, now, subset, overflow_checks>>

InitPolicy ==
  /\ NoSessionLayer
  /\ encryption_policy \in {default_policy, inclusion, exclusion}
  /\ mw_jar = EmptyJar
  /\ headers = <<>>
  /\ cookie_jar = EmptyJar
  /\ res_headers = <<>>
  /\ cpc = "ready"
  /\ kind_out = None
  /\ served = 0
  /\ touched = EmptyMap
  /\ now = 0
  /\ subset = None
  /\ overflow_checks = TRUE

\* policy.insert(key, kind).
PolicyInsert(key, kind) ==
  /\ encryption_policy' = policy_insert(encryption_policy, key, kind)
  /\ kind_out' = None
  /\ UNCHANGED <<sessVars, mw_jar, headers, cookie_jar, res_headers, cpc, served,
                 touched>>

\* policy.cookie_kind(key).
CookieKindOf(key) ==
  /\ kind_out' = Some([key |-> key, kind |-> cookie_kind(encryption_policy, key)])
  /\ UNCHANGED <<sessVars, encryption_policy, mw_jar, headers, cookie_jar,
                 res_headers, cpc, served, touched>>

NextPolicy ==
  \/ \E key \in CookieNames, kind \in CookieKind : PolicyInsert(key, kind)
  \/ \E key \in CookieNames : CookieKindOf(key)

SpecPolicy == InitPolicy /\ [][NextPolicy]_vars


\* ------------------------------------------- the cookie middleware
\* The policies the jars of the tests are built with.
TestPolicies ==
  {default_policy,
   policy_insert(default_policy, "id", "Private"),
   policy_insert(default_policy, "id", "Signed")}

\* The pieces a Cookie header is made of: pairs in the clear, a value sealed
\* by this server, a sealed value with a bit flipped, a piece without '=',
\* and a pair with a byte that is not visible ASCII.
Pieces ==
  {Pair("id", Plain("1234")),
   Pair("id", Seal("P", Plain("1234"))),
   Pair("id", Seal("X", Plain("1234"))),
   Pair("theme", Plain("light")),
   [name |-> "theme", eq |-> FALSE, value |-> Plain(""), ascii |-> TRUE],
   [name |-> "theme", eq |-> TRUE, value |-> Plain("caf\\xe9"), ascii |-> FALSE]}

RECURSIVE HeadersOf(_, _)
\* At most h header values, none empty, of at most n pieces together.
HeadersOf(n, h) ==
  IF h = 0 THEN {<<>>}
  ELSE {<<>>} \cup
       UNION {{<<v>> \o r : v \in [1..k -> Pieces], r \in HeadersOf(n - k, h - 1)} :
                k \in 1..n}

\* The Cookie headers of a request: header values, each a list of pieces.
RequestHeaders == HeadersOf(MaxPieces, MaxHeaders)

InitCookie ==
  /\ NoSessionLayer
  /\ encryption_policy \in TestPolicies
  /\ mw_jar = EmptyJar
  /\ headers = <<>>
  /\ cookie_jar = EmptyJar
  /\ res_headers = <<>>
  /\ cpc = "ready"
  /\ kind_out = None
  /\ served = 0
  /\ touched = EmptyMap
  /\ now = 0
  /\ subset = None
  /\ overflow_checks = TRUE

\* CookieMidleware::call: from_headers on the middleware's jar, the jar it
\* returns into the request's extensions and into the response future.
CookieCall(hs) ==
  /\ cpc = "ready"
  /\ served < MaxCookieRequests
  /\ served' = served + 1
  /\ headers' = hs
  /\ mw_jar' = from_headers(mw_jar, encryption_policy, hs)
  /\ cookie_jar' = mw_jar'
  /\ res_headers' = <<>>
  /\ cpc' = "handler"
  /\ touched' = EmptyMap
  /\ UNCHANGED <<sessVars, encryption_policy, kind_out>>

\* The handler adds a cookie to the jar it extracted.
HandlerAdd(name, value) ==
  /\ cpc = "handler"
  /\ cookie_jar' = jar_add(cookie_jar, [name |-> name, value |-> value])
  /\ touched' = map_insert(touched, name, value)
  /\ UNCHANGED <<sessVars, encryption_policy, mw_jar, headers, res_headers, cpc,
                 kind_out, served>>

\* The handler returns the jar as a part of its response.
IntoResponseParts ==
  /\ cpc = "handler"
  /\ res_headers' \in set_cookies(cookie_jar)
  /\ cpc' = "responded"
  /\ UNCHANGED <<sessVars, encryption_policy, mw_jar, headers, cookie_jar,
                 kind_out, served, touched>>

\* The response has left: the request and its jar are dropped.
EndRequest ==
  /\ cpc = "responded"
  /\ cpc' = "ready"
  /\ headers' = <<>>
  /\ cookie_jar' = EmptyJar
  /\ res_headers' = <<>>
  /\ touched' = EmptyMap
  /\ UNCHANGED <<sessVars, encryption_policy, mw_jar, kind_out, served>>

NextCookie ==
  \/ \E hs \in RequestHeaders : CookieCall(hs)
  \/ \E name \in HeaderNames : HandlerAdd(name, Plain("5678"))
  \/ IntoResponseParts
  \/ EndRequest

SpecCookie == InitCookie /\ [][NextCookie]_vars


\* ------------------------------------------- the Redis driver over time
\* The Redis server after dt seconds: a key whose expiry has run out is gone,
\* the others have dt seconds less to live.
expire(db, dt) ==
  [k \in {x \in DOMAIN db : db[x].ex > dt} |-> [db[k] EXCEPT !.ex = @ - dt]]

\* The time the model lets go by, and the steps in which it does.
TimeLimit == MaxTtls * RedisTtl
Steps == {RedisTtl - 1, RedisTtl}

\* A RedisDriver on a server that is empty or holds one session.
InitExpiry ==
  /\ driver = "redis"
  /\ sessions = EmptyStore
  /\ redisDb \in {EmptyStore} \cup
       {redis_apply(EmptyStore, Cmd("SET", 1, data), RedisTtl) : data \in DriverData}
  /\ used = DOMAIN redisDb
  /\ drv = NoCall
  /\ pc = "idle"
  /\ cookie = None
  /\ session = None
  /\ session_key = 0
  /\ response = NoResponse
  /\ mwCalls = <<>>
  /\ calls = <<>>
  /\ returned = None
  /\ prev = NoPrev
  /\ requests = 0
  /\ budget = 0
  /\ cur = "Unchanged"
  /\ trail = <<>>
  /\ hist = NoHist
  /\ parked = NoParked
  /\ CookiesIdle
  /\ now = 0
  /\ subset = None
  /\ overflow_checks = TRUE

\* dt seconds go by between two calls of the driver.
Elapse(dt) ==
  /\ drv.result # "pending"
  /\ now + dt <= TimeLimit
  /\ now' = now + dt
  /\ redisDb' = expire(redisDb, dt)
  /\ UNCHANGED <<driver, sessions, used, drv, pc, cookie, session, session_key,
                 response, mwCalls, calls, returned, prev, requests, budget,
                 cur, trail, hist, parked, ckVars, subset, overflow_checks>>

NextExpiry ==
  \/ \E key \in CallKeys : Read(key)
  \/ \E key \in CallKeys, data \in DriverData : Write(key, data)
  \/ \E key \in CallKeys : Destroy(key)
  \/ \E data \in DriverData, k \in FreshKeys(used) : Create(data, k)
  \/ \E key \in CallKeys, data \in DriverData, k \in FreshKeys(used) :
       DriverRegenerate(key, data, k)
  \/ \E key \in CallKeys, data \in DriverData, k \in FreshKeys(used) :
       DriverInvalidate(key, data, k)
  \/ DriverStep
  \/ AttemptOk
  \/ \E dt \in Steps : Elapse(dt)

SpecExpiry == InitExpiry /\ [][NextExpiry]_vars

\* ------------------------------------------- the NullDriver on its own
\* A read that starts every session with a fresh token.
null_read_with_token(key) == Some(build(key, TokenSession(1)))

\* NullDriver::read: a session built for the key from SessionData::default().
null_read(key) == Some(build(key, EmptyData))

\* NullDriver::write: Ok(key); the data is not looked at.
null_write(key, data) == key

InitNull ==
  /\ driver = "null"
  /\ sessions = EmptyStore
  /\ redisDb = EmptyStore
  /\ used = {}
  /\ drv = NoCall
  /\ pc = "idle"
  /\ cookie = None
  /\ session = None
  /\ session_key = 0
  /\ response = NoResponse
  /\ mwCalls = <<>>
  /\ calls = <<>>
  /\ returned = None
  /\ prev = NoPrev
  /\ requests = 0
  /\ budget = 0
  /\ cur = "Unchanged"
  /\ trail = <<>>
  /\ hist = NoHist
  /\ parked = NoParked
  /\ CookiesIdle
  /\ now = 0
  /\ subset = None
  /\ overflow_checks = TRUE

\* One call of the NullDriver: it returns at once, with `got` as its Ok value.
NullCall(op, key, data, got) ==
  /\ hist.n < MaxNullCalls
  /\ drv' = [NoCall EXCEPT !.op = op, !.key = key, !.data = data, !.got = got,
                            !.result = "ok"]
  /\ hist' = [before |-> sessions,
              last |-> [op |-> drv.op, key |-> drv.key, data |-> drv.data,
                        result |-> drv.result],
              n |-> hist.n + 1, at |-> now]
  /\ UNCHANGED <<driver, sessions, redisDb, used, pc, cookie, session, session_key,
                 response, mwCalls, calls, returned, prev, requests, budget,
                 cur, trail, parked, ckVars, now, subset, overflow_checks>>

NullRead(key) == NullCall("read", key, EmptyData, null_read(key))
NullWrite(key, data) == NullCall("write", key, data, Some(null_write(key, data)))
NullDestroy(key) == NullCall("destroy", key, EmptyData, None)

NextNull ==
  \/ \E key \in GenKeys \cup {ForgedKey} : NullRead(key)
  \/ \E key \in GenKeys \cup {ForgedKey}, data \in DriverData : NullWrite(key, data)
  \/ \E key \in GenKeys \cup {ForgedKey} : NullDestroy(key)

SpecNull == InitNull /\ [][NextNull]_vars

\* ------------------------------------------- a subset of a session
\* Session::only and Session::except: a view of the session's data, the key
\* list, and the session's key and state.
only(s, keys) ==
  [data |-> s.data, keys |-> keys, kind |-> "Only", session_key |-> s.key,
   state |-> s.state]
except(s, keys) ==
  [data |-> s.data, keys |-> keys, kind |-> "Except", session_key |-> s.key,
   state |-> s.state]

subset_has_ignores_kind(sub, key) == \E i \in DOMAIN sub.keys : sub.keys[i] = key

\* SessionSubset::has.
subset_has(sub, key) ==
  CASE sub.kind = "Only" -> \E i \in DOMAIN sub.keys : sub.keys[i] = key
    [] sub.kind = "Except" -> ~(\E i \in DOMAIN sub.keys : sub.keys[i] = key)

\* SessionSubset::get_ref: has(key).then(|| data.get(key)).flatten().
subset_get_ref(sub, key) ==
  IF subset_has(sub, key) /\ key \in DOMAIN sub.data THEN Some(sub.data[key])
  ELSE None

\* SessionSubset::get_str: the value when it is a string.
subset_get_str(sub, key) ==
  IF IsSome(subset_get_ref(sub, key)) /\ Unwrap(subset_get_ref(sub, key)).kind = "str"
  THEN Some(Unwrap(subset_get_ref(sub, key)).n)
  ELSE None

\* SessionSubset::get::<i32>: the value when it deserializes as a number.
subset_get_i32(sub, key) ==
  IF subset_has(sub, key) /\ key \in DOMAIN sub.data /\ sub.data[key].kind = "int"
  THEN Some(sub.data[key].n)
  ELSE None

\* SessionSubset::to_all: the entries of the data that has() lets through.
to_all(sub) ==
  [x \in {k \in DOMAIN sub.data : subset_has(sub, k)} |-> sub.data[x]]

into_session_keeps_state(sub) ==
  [key |-> sub.session_key, state |-> sub.state, data |-> to_all(sub)]

\* SessionSubset::into_session: the parent's key, the state moved to Changed,
\* the filtered data.
into_session(sub) ==
  [key |-> sub.session_key, state |-> transition(sub.state, "Changed"),
   data |-> to_all(sub)]

\* The key lists a subset is asked for: any names, in any order, repeated.
KeyLists == UNION {[1..n -> Names] : n \in 0..MaxKeyList}

InitSubset ==
  /\ driver = "none"
  /\ sessions = EmptyStore
  /\ redisDb = EmptyStore
  /\ used = {1}
  /\ drv = NoCall
  /\ pc = "handler"
  /\ cookie = None
  /\ session \in {Some([build(1, d) EXCEPT !.state = st]) :
                    d \in InitialData, st \in SessionState}
  /\ session_key = 1
  /\ response = NoResponse
  /\ mwCalls = <<>>
  /\ calls = <<>>
  /\ returned = None
  /\ prev = NoPrev
  /\ requests = 1
  /\ budget = 0
  /\ cur = "Unchanged"
  /\ trail = <<>>
  /\ hist = NoHist
  /\ parked = NoParked
  /\ CookiesIdle
  /\ now = 0
  /\ subset = None
  /\ overflow_checks = TRUE

\* session.only(&keys).
Only(keys) ==
  /\ subset' = Some(only(Unwrap(session), keys))
  /\ UNCHANGED <<sessVarsNoSubset, ckVars>>

\* session.except(&keys).
Except(keys) ==
  /\ subset' = Some(except(Unwrap(session), keys))
  /\ UNCHANGED <<sessVarsNoSubset, ckVars>>

\* subset.into_session(): the subset is consumed, the parent is untouched.
IntoSession ==
  /\ IsSome(subset)
  /\ returned' = Some(into_session(Unwrap(subset)))
  /\ subset' = None
  /\ UNCHANGED <<driver, sessions, redisDb, used, drv, pc, cookie, session,
                 session_key, response, mwCalls, calls, prev, requests, budget,
                 cur, trail, hist, parked, ckVars, now, overflow_checks>>

NextSubset ==
  \/ \E keys \in KeyLists : Only(keys)
  \/ \E keys \in KeyLists : Except(keys)
  \/ IntoSession

SpecSubset == InitSubset /\ [][NextSubset]_vars

\* ------------------------------------------- the trait's default methods
\* A SessionDriver that implements read, write, destroy and ttl and keeps the
\* default create, regenerate and invalidate.  Its records are kept as the
\* MemoryDriver keeps them; each of its own operations either takes effect
\* and returns Ok, or returns Err and has changed nothing.
InitDefault ==
  /\ driver = "fallible"
  /\ sessions \in InitStores(driver)
  /\ redisDb = EmptyStore
  /\ used = DOMAIN sessions
  /\ drv = NoCall
  /\ pc = "idle"
  /\ cookie = None
  /\ session = None
  /\ session_key = 0
  /\ response = NoResponse
  /\ mwCalls = <<>>
  /\ calls = <<>>
  /\ returned = None
  /\ prev = NoPrev
  /\ requests = 0
  /\ budget = 0
  /\ cur = "Unchanged"
  /\ trail = <<>>
  /\ hist = NoHist
  /\ parked = NoParked
  /\ CookiesIdle
  /\ now = 0
  /\ subset = None
  /\ overflow_checks = TRUE

\* The operation awaited at drv.i returns Err: the `?` returns it from the
\* default method and the operations after it are not attempted.
OperationFails ==
  /\ driver = "fallible"
  /\ drv.result = "pending"
  /\ drv.i <= Len(drv.cmds)
  /\ drv' = [drv EXCEPT !.result = "err", !.err = "operation"]
  /\ UNCHANGED <<driver, sessions, redisDb, used, pc, cookie, session,
                 session_key, response, mwCalls, calls, returned, prev, requests,
                 budget, cur, trail, hist, parked, ckVars, now, subset,
                 overflow_checks>>

\* Every operation of the default method has returned Ok.
DefaultReturn ==
  /\ driver = "fallible"
  /\ drv.result = "pending"
  /\ drv.i > Len(drv.cmds)
  /\ drv' = [drv EXCEPT !.result = "ok"]
  /\ UNCHANGED <<driver, sessions, redisDb, used, pc, cookie, session,
                 session_key, response, mwCalls, calls, returned, prev, requests,
                 budget, cur, trail, hist, parked, ckVars, now, subset,
                 overflow_checks>>

NextDefault ==
  \/ \E key \in CallKeys : Read(key)
  \/ \E key \in CallKeys, data \in DriverData : Write(key, data)
  \/ \E key \in CallKeys : Destroy(key)
  \/ \E data \in DriverData, k \in FreshKeys(used) : Create(data, k)
  \/ \E key \in CallKeys, data \in DriverData, k \in FreshKeys(used) :
       DriverRegenerate(key, data, k)
  \/ \E key \in CallKeys, data \in DriverData, k \in FreshKeys(used) :
       DriverInvalidate(key, data, k)
  \/ DriverStep
  \/ OperationFails
  \/ DefaultReturn

SpecDefault == InitDefault /\ [][NextDefault]_vars

\* ------------------------------------------- the retry loop, to its end
\* The RedisDriver alone; the transport answers every attempt it is sent.
InitRetry == InitDriver /\ driver = "redis"

NextRetry ==
  \/ \E key \in CallKeys : Read(key)
  \/ \E key \in CallKeys, data \in DriverData : Write(key, data)
  \/ \E key \in CallKeys : Destroy(key)
  \/ \E data \in DriverData, k \in FreshKeys(used) : Create(data, k)
  \/ \E key \in CallKeys, data \in DriverData, k \in FreshKeys(used) :
       DriverRegenerate(key, data, k)
  \/ \E key \in CallKeys, data \in DriverData, k \in FreshKeys(used) :
       DriverInvalidate(key, data, k)
  \/ ReadReturn
  \/ DriverStep
  \/ AttemptOk
  \/ AttemptDropped
  \/ AttemptOther

SpecRetry ==
  /\ InitRetry
  /\ [][NextRetry]_vars
  /\ WF_vars(AttemptOk \/ AttemptDropped \/ AttemptOther)

\* ------------------------------------------- counters in a session
\* Numbers at the ends of the i32 range and around zero.
I32Samples == {I32Min, I32Max} \cup IntRange

\* A session whose `user_id` is absent, a number or a string.
CounterData ==
  {d \in UNION {[D -> {Text(t) : t \in Tokens} \cup {Num(n) : n \in I32Samples}] :
                  D \in SUBSET Names} :
     "_token" \in DOMAIN d => d["_token"].kind = "str"}

InitCounter ==
  /\ driver = "none"
  /\ sessions = EmptyStore
  /\ redisDb = EmptyStore
  /\ used = {1}
  /\ drv = NoCall
  /\ pc = "handler"
  /\ cookie = None
  /\ session \in {Some(build(1, d)) : d \in CounterData}
  /\ session_key = 1
  /\ response = NoResponse
  /\ mwCalls = <<>>
  /\ calls = <<>>
  /\ returned = None
  /\ prev = NoPrev
  /\ requests = 1
  /\ budget = 0
  /\ cur = "Unchanged"
  /\ trail = <<>>
  /\ hist = NoHist
  /\ parked = NoParked
  /\ CookiesIdle
  /\ now = 0
  /\ subset = None
  /\ overflow_checks \in BOOLEAN

\* The handler calls increment_by or decrement_by; `trail` keeps the session
\* each call was made on.  A panic unwinds the handler and the session is lost.
CounterCall(call, s, panics) ==
  /\ pc = "handler"
  /\ budget < MaxCounterCalls
  /\ budget' = budget + 1
  /\ calls' = Append(calls, call)
  /\ trail' = Append(trail, Unwrap(session))
  /\ IF panics THEN pc' = "panicked" /\ session' = None
               ELSE pc' = pc /\ session' = Some(s)
  /\ UNCHANGED <<driver, sessions, redisDb, used, drv, cookie, session_key,
                 response, mwCalls, returned, prev, requests, cur, hist, parked,
                 ckVars, now, subset, overflow_checks>>

CounterIncrementBy(k, n) ==
  /\ pc = "handler"
  /\ CounterCall(Call("increment_by", {k}, n), increment_by(Unwrap(session), k, n),
                 increment_by_panics(overflow_checks, Unwrap(session), k, n))

CounterDecrementBy(k, n) ==
  /\ pc = "handler"
  /\ CounterCall(Call("decrement_by", {k}, n), decrement_by(Unwrap(session), k, n),
                 decrement_by_panics(overflow_checks, Unwrap(session), k, n))

NextCounter ==
  \/ \E k \in Names, n \in I32Samples : CounterIncrementBy(k, n)
  \/ \E k \in Names, n \in I32Samples : CounterDecrementBy(k, n)

SpecCounter == InitCounter /\ [][NextCounter]_vars

\* ================================================================== claims
ChangedOps == {"insert", "remove", "pull", "forget", "flush", "increment_by",
               "decrement_by", "regenerate_token"}
Last(q) == q[Len(q)]

\* A step in which the handler calls one more mutator.
MutatorStep == IsSome(session) /\ Len(calls') = Len(calls) + 1

\* The merge rule as the claim words it.
C1_Table(S, T) ==
  IF T = "Invalidated" THEN "Invalidated"
  ELSE IF T = "Regenerated" THEN "Regenerated"
  ELSE IF S = "Unchanged" /\ T = "Changed" THEN "Changed"
  ELSE S

\* C1: for every current state S and requested state T, transition(S, T) is
\* defined, is one of the four states and equals the table of the claim:
\* along every chain of transitions each result is the table's entry for the
\* state and request it was computed from.
C1_TransitionTable ==
  /\ cur \in SessionState
  /\ \A i \in 1..Len(trail) :
       LET result == IF i < Len(trail) THEN trail[i + 1][1] ELSE cur
       IN result = C1_Table(trail[i][1], trail[i][2])

C1_Witness ==
  /\ Len(trail) >= 2
  /\ trail[1] = <<"Invalidated", "Changed">>
  /\ trail[2] = <<"Invalidated", "Unchanged">>
  /\ cur = "Invalidated"

\* C2: a mutator call never takes the state back to Unchanged once it has
\* left it, and a mutator that requests Changed leaves a Regenerated or
\* Invalidated state as it is.
C2_NoDowngrade ==
  [][MutatorStep =>
       LET old == Unwrap(session).state
           new == Unwrap(session').state
       IN /\ old # "Unchanged" => new # "Unchanged"
          /\ (old \in {"Regenerated", "Invalidated"}
                /\ Last(calls').op \in ChangedOps) => new = old]_vars

C2_Witness ==
  /\ driver = "none"
  /\ Len(calls) >= 2
  /\ calls[1].op = "regenerate"
  /\ calls[2].op \in ChangedOps
  /\ Unwrap(session).state = "Regenerated"

\* C3: when the calls made so far contain a regenerate() or an invalidate(),
\* the state is Regenerated if the last of them was regenerate() and
\* Invalidated if it was invalidate(), whatever else was called.
C3_LastWins ==
  LET marks == {i \in 1..Len(calls) : calls[i].op \in {"regenerate", "invalidate"}}
  IN (IsSome(session) /\ marks # {}) =>
       LET last == CHOOSE i \in marks : \A j \in marks : j <= i
       IN Unwrap(session).state =
            IF calls[last].op = "regenerate" THEN "Regenerated" ELSE "Invalidated"

C3_Witness ==
  /\ driver = "none"
  /\ Len(calls) >= 3
  /\ calls[1].op = "invalidate"
  /\ calls[2].op = "regenerate"
  /\ calls[3].op \in ChangedOps
  /\ Unwrap(session).state = "Regenerated"

\* The transition each mutator requests, as the claim lists them.
C4_Requested(op) ==
  IF op = "regenerate" THEN "Regenerated"
  ELSE IF op = "invalidate" THEN "Invalidated"
  ELSE "Changed"

\* C4: every mutator call returns a session whose state is the table's entry
\* for the old state and the transition the mutator requests, and whose key
\* is the key of the session it was called on.
C4_MutatorState ==
  [][MutatorStep =>
       /\ Unwrap(session').state =
            C1_Table(Unwrap(session).state, C4_Requested(Last(calls').op))
       /\ Unwrap(session').key = Unwrap(session).key]_vars

C4_Witness ==
  /\ driver = "none"
  /\ Len(calls) >= 2
  /\ calls[1].op = "invalidate"
  /\ calls[2].op = "flush"
  /\ Unwrap(session).state = "Invalidated"
  /\ Unwrap(session).key = 1


\* What driver.read(k) returns when it runs now, with nothing interleaved.
ReadNow(k) ==
  LET st == StartCall(driver, "read", k, EmptyData, 0)
      raw == IF IsRedis(driver)
             THEN IF k \in DOMAIN redisDb THEN Some(redisDb[k].val) ELSE None
             ELSE IF k \in DOMAIN sessions THEN Some(sessions[k]) ELSE None
  IN read_result(driver, [st EXCEPT !.got = raw])

\* The request ended with the handler's response and its session cookie.
Responded == pc = "done" /\ response.kind = "handler"
CookieOut == response.set_cookie[1].value

\* C5: invalidate() returns a session with empty data and state Invalidated
\* whatever it was called on; and when the handler returns such a session
\* and the request ends without a driver error, the response cookie carries
\* a new key under which an empty record is stored.
C5_InvalidateClears ==
  /\ (pc = "handler" /\ calls # <<>> /\ Last(calls).op = "invalidate") =>
       /\ Unwrap(session).data = EmptyData
       /\ Unwrap(session).state = "Invalidated"
  /\ (Responded /\ IsSome(returned)
        /\ Unwrap(returned).state = "Invalidated"
        /\ Unwrap(returned).data = EmptyData) =>
       /\ Len(response.set_cookie) = 1
       /\ CookieOut # Unwrap(returned).key
       /\ IsSome(ReadNow(CookieOut))
       /\ Unwrap(ReadNow(CookieOut)).data = EmptyData

C5_Witness ==
  /\ Responded
  /\ IsSome(returned)
  /\ Unwrap(returned).state = "Invalidated"
  /\ Unwrap(returned).data = EmptyData
  /\ requests = 2
  /\ IsSome(prev.returned)
  /\ "user_id" \in DOMAIN Unwrap(prev.returned).data
  /\ cookie = Some(Unwrap(prev.returned).key)

IsTerminalCall(c) == c.op \notin {"read", "create"}
PostCalls == SelectSeq(mwCalls, IsTerminalCall)

\* C6: once the handler's response carries a session, the middleware
\* invokes exactly one driver operation after the handler, chosen by the
\* final state: write for Changed, regenerate for Regenerated, invalidate for
\* Invalidated, each with the session's key and data, and none for
\* Unchanged; before the response is examined it invokes none.
C6_OneTerminalOp ==
  /\ pc \in {"handler", "after"} => PostCalls = <<>>
  /\ \A i \in 1..Len(mwCalls) : \A j \in i..Len(mwCalls) :
       IsTerminalCall(mwCalls[i]) => IsTerminalCall(mwCalls[j])
  /\ (pc \in {"terminal", "done"} /\ IsSome(returned)) =>
       LET s == Unwrap(returned)
       IN PostCalls =
            CASE s.state = "Changed" -> <<MwCall("write", s.key, s.data)>>
              [] s.state = "Regenerated" -> <<MwCall("regenerate", s.key, s.data)>>
              [] s.state = "Invalidated" -> <<MwCall("invalidate", s.key, s.data)>>
              [] OTHER -> <<>>

C6_Witness ==
  /\ pc = "done"
  /\ IsSome(returned)
  /\ Unwrap(returned).state = "Regenerated"
  /\ PostCalls = <<MwCall("regenerate", Unwrap(returned).key, Unwrap(returned).data)>>

\* C7: for a request without a session cookie the middleware never calls
\* driver.read and calls driver.create once, and the session it installs
\* for the handler is Unchanged, holds the `_token` entry and nothing else,
\* and has the key that create returned.
C7_NoCookieCreates ==
  (cookie = None /\ pc \notin {"idle", "start"}) =>
    /\ \A i \in 1..Len(mwCalls) : mwCalls[i].op # "read"
    /\ Cardinality({i \in 1..Len(mwCalls) : mwCalls[i].op = "create"}) = 1
    /\ (pc = "handler" /\ calls = <<>>) =>
         /\ IsSome(session)
         /\ Unwrap(session).state = "Unchanged"
         /\ DOMAIN Unwrap(session).data = {"_token"}
         /\ drv.op = "create" /\ drv.result = "ok"
         /\ Unwrap(session).key = driver_key(drv)

C7_Witness ==
  /\ cookie = None
  /\ pc = "handler"
  /\ calls = <<>>
  /\ Len(mwCalls) = 1
  /\ IsSome(session)

\* C8: (a) after insert("user_id", 1) and then regenerate() the handler's
\* session is Regenerated and holds user_id = 1; (b) when a request whose
\* handler returned a Regenerated session ends without a driver error, its
\* session cookie carries a key different from the key the session had
\* during the request; (c) the next request, presenting that cookie, is
\* handed a session with the data the handler returned, so user_id is 1.
C8_RegenerateRoundTrip ==
  /\ (pc = "handler"
        /\ calls = <<Call("insert", {"user_id"}, 1), Call("regenerate", {}, 0)>>) =>
       /\ Unwrap(session).state = "Regenerated"
       /\ "user_id" \in DOMAIN Unwrap(session).data
       /\ Unwrap(session).data["user_id"] = Num(1)
  /\ (Responded /\ IsSome(returned) /\ Unwrap(returned).state = "Regenerated") =>
       /\ Len(response.set_cookie) = 1
       /\ CookieOut # Unwrap(returned).key
  /\ (pc = "handler" /\ calls = <<>>
        /\ prev.kind = "handler" /\ IsSome(prev.returned)
        /\ Unwrap(prev.returned).state = "Regenerated"
        /\ cookie = Some(prev.set_cookie[1].value)) =>
       /\ IsSome(session)
       /\ Unwrap(session).key = Unwrap(cookie)
       /\ Unwrap(session).data = Unwrap(prev.returned).data

C8_Witness ==
  /\ pc = "handler"
  /\ calls = <<>>
  /\ prev.kind = "handler"
  /\ IsSome(prev.returned)
  /\ Unwrap(prev.returned).state = "Regenerated"
  /\ cookie = Some(prev.set_cookie[1].value)
  /\ Unwrap(cookie) # prev.key_in
  /\ "user_id" \in DOMAIN Unwrap(session).data
  /\ Unwrap(session).data["user_id"] = Num(1)

\* C9: once driver.regenerate(old, data) has returned a key new without
\* error, and until another operation runs, read(old) returns no session and
\* read(new) returns a session whose data equals data, with the MemoryDriver
\* and with the RedisDriver.
C9_RegeneratePost ==
  (drv.op = "regenerate" /\ drv.result = "ok") =>
    /\ ReadNow(drv.key) = None
    /\ IsSome(ReadNow(driver_key(drv)))
    /\ Unwrap(ReadNow(driver_key(drv))).data = drv.data

C9_Witness ==
  /\ driver = "redis"
  /\ drv.op = "regenerate"
  /\ drv.result = "ok"
  /\ "user_id" \in DOMAIN drv.data
  /\ ReadNow(drv.key) = None

\* C10: a RedisDriver regenerate whose first attempt failed with a dropped
\* connection, and none of whose later attempts failed, returns the new key
\* without error, after which read(old) returns no session and read(new)
\* returns the data.
C10_RegenerateRetried ==
  (/\ driver = "redis"
   /\ drv.op = "regenerate"
   /\ drv.result \in {"ok", "err"}
   /\ drv.outcomes # <<>>
   /\ drv.outcomes[1] = "dropped"
   /\ \A i \in 2..Len(drv.outcomes) : drv.outcomes[i] = "ok") =>
    /\ drv.result = "ok"
    /\ ReadNow(drv.key) = None
    /\ IsSome(ReadNow(driver_key(drv)))
    /\ Unwrap(ReadNow(driver_key(drv))).data = drv.data


\* The driver call has returned to its caller.
CallReturned == drv.result \in {"ok", "err"} /\ read_returns(driver, drv) = drv

\* C11: a Redis command or pipeline whose first attempt failed with a
\* dropped connection has been sent exactly twice when retry returns, and
\* retry returns the outcome of the second attempt; no command is sent more
\* than twice.
C11_RetriedOnce ==
  /\ Len(drv.outcomes) <= 2
  /\ (IsRedis(driver) /\ drv.result \in {"ok", "err"}
        /\ drv.outcomes # <<>> /\ drv.outcomes[1] = "dropped") =>
       /\ Len(drv.outcomes) = 2
       /\ drv.result = IF drv.outcomes[2] = "ok" THEN "ok" ELSE "err"

\* C12: an attempt that fails with an error other than a dropped connection
\* is the last attempt of its command: retry has returned that error, and
\* when it was the first attempt the command has been sent exactly once.
C12_OtherErrorReturned ==
  \A i \in 1..Len(drv.outcomes) :
    drv.outcomes[i] = "other" =>
      /\ i = Len(drv.outcomes)
      /\ drv.result = "err"
      /\ drv.err = "transport"
      /\ drv.outcomes[1] = "other" => Len(drv.outcomes) = 1

C12_Witness ==
  /\ IsRedis(driver)
  /\ drv.op = "regenerate"
  /\ drv.outcomes = <<"other">>
  /\ drv.result = "err"
  /\ drv.i = 2

\* C13: retry never returns the internal I/O error of its fall-through exit,
\* 'Retry loop exited without success or error'.
C13_NoFallThrough == drv.err # "retry_exit"


\* The store holds a record under k.
Stored(k) == k \in DOMAIN Store
\* The records under the keys other than k are those the call began with.
OthersKept(k) ==
  /\ DOMAIN Store \ {k} = DOMAIN hist.before \ {k}
  /\ \A x \in DOMAIN Store \ {k} : Store[x] = hist.before[x]
\* The attempt that ended the call did not succeed on the transport.
TransportFailed == drv.outcomes # <<>> /\ Last(drv.outcomes) # "ok"

\* C14: while driver.regenerate(old, data) runs and after it has returned,
\* with success or with the failure of either step, a record is stored under
\* old or under the new key whenever one was stored under old when the call
\* began.
C14_RegenerateKeepsOne ==
  (drv.op = "regenerate" /\ drv.key \in DOMAIN hist.before) =>
    (Stored(drv.key) \/ Stored(drv.new_key))

C14_Witness ==
  /\ IsRedis(driver)
  /\ drv.op = "regenerate"
  /\ drv.key \in DOMAIN hist.before
  /\ drv.i = 2
  /\ drv.result = "err"
  /\ Stored(drv.key) /\ Stored(drv.new_key)

\* C15: while driver.invalidate(key, data) runs and after it has returned,
\* with success or with the failure of either step, a record is stored under
\* key or under the new key whenever one was stored under key when the call
\* began.
C15_InvalidateKeepsOne ==
  (drv.op = "invalidate" /\ drv.key \in DOMAIN hist.before) =>
    (Stored(drv.key) \/ Stored(drv.new_key))

\* C16: destroy(k) fails only when the transport fails, whether or not a
\* record is stored under k, so also when the call before it was a
\* successful destroy(k); once it has succeeded no record is stored under k;
\* and it never touches the record of another key.
C16_DestroyIdempotent ==
  drv.op = "destroy" =>
    /\ OthersKept(drv.key)
    /\ (CallReturned /\ drv.result = "err") => TransportFailed
    /\ (CallReturned /\ drv.result = "ok") => ~Stored(drv.key)

C16_Witness ==
  /\ driver = "redis"
  /\ drv.op = "destroy" /\ drv.key = 1 /\ drv.result = "ok"
  /\ hist.last = [op |-> "destroy", key |-> 1, data |-> EmptyData, result |-> "ok"]
  /\ 1 \in used
  /\ hist.before = EmptyStore
  /\ Store = EmptyStore

\* C17: a write(key, data) that succeeded returned key, left under key the
\* record of data in place of any earlier one and kept the records of the
\* other keys; and a read(key) that follows it returns a session with that
\* key, with data equal to data and with state Unchanged.
C17_WriteThenRead ==
  /\ (drv.op = "write" /\ drv.result = "ok") =>
       /\ driver_key(drv) = drv.key
       /\ ReadNow(drv.key) = Some(build(drv.key, drv.data))
       /\ OthersKept(drv.key)
  /\ (drv.op = "read" /\ CallReturned /\ drv.result = "ok"
        /\ hist.last.op = "write" /\ hist.last.result = "ok"
        /\ hist.last.key = drv.key) =>
       read_result(driver, drv) =
         Some([key |-> drv.key, state |-> "Unchanged", data |-> hist.last.data])

C17_Witness ==
  /\ drv.op = "read" /\ CallReturned /\ drv.result = "ok"
  /\ hist.last.op = "write" /\ hist.last.result = "ok" /\ hist.last.key = drv.key
  /\ drv.key = 1 /\ 1 \in used
  /\ "user_id" \notin DOMAIN hist.last.data
  /\ read_result(driver, drv) = Some(build(1, EmptyData))

\* C18: a read(key) that began with no record under key leaves the store as
\* it was, fails only when the transport fails and otherwise returns no
\* session as a success; and no read fails for a reason other than the
\* transport or the decoding of the stored value.
C18_ReadMissIsNone ==
  /\ (drv.op = "read" /\ CallReturned /\ drv.key \notin DOMAIN hist.before) =>
       /\ Store = hist.before
       /\ drv.result = "err" => TransportFailed
       /\ drv.result = "ok" => read_result(driver, drv) = None
  /\ (drv.op = "read" /\ CallReturned /\ drv.result = "err") =>
       (TransportFailed \/ drv.err = "decode")


\* A step of the running request in which its write's SET takes effect.
WriteApplied ==
  /\ parked' = parked
  /\ drv.op = "write" /\ drv.result = "pending"
  /\ drv.i = 1 /\ drv'.i = 2

\* Both requests have ended with a response after their handlers returned a
\* session in state Changed to be written under key k.
BothWrote(k) ==
  /\ pc = "done" /\ parked.pc = "done"
  /\ IsSome(returned) /\ IsSome(parked.returned)
  /\ Unwrap(returned).state = "Changed" /\ Unwrap(parked.returned).state = "Changed"
  /\ Unwrap(returned).key = k /\ Unwrap(parked.returned).key = k

\* C19: when two requests with the same session key both end in state
\* Changed, each write, unless its transport fails, succeeds and replaces the
\* record by exactly the data of its own request, whatever the other request
\* wrote in between; so the record stored in the end is the data of the
\* request whose write took effect last and nothing of the other's.
C19_LastWriterWins ==
  /\ [][WriteApplied => ReadNow(drv.key)' = Some(build(drv.key, drv.data))]_vars
  /\ [](\A k \in used :
          BothWrote(k) =>
            /\ drv.op = "write" /\ parked.drv.op = "write"
            /\ drv.result = "ok" \/ TransportFailed
            /\ parked.drv.result = "ok" \/ Last(parked.drv.outcomes) # "ok"
            /\ (drv.result = "ok" /\ parked.drv.result = "ok") =>
                 /\ response.kind = "handler" /\ parked.response.kind = "handler"
                 /\ ReadNow(k) \in {Some(build(k, Unwrap(returned).data)),
                                    Some(build(k, Unwrap(parked.returned).data))})

C19_Witness ==
  /\ BothWrote(1)
  /\ response.kind = "handler" /\ parked.response.kind = "handler"
  /\ drv.result = "ok" /\ parked.drv.result = "ok"
  /\ "user_id" \in DOMAIN Unwrap(parked.returned).data
  /\ "_token" \in DOMAIN Unwrap(parked.returned).data
  /\ "_token" \notin DOMAIN Unwrap(returned).data
  /\ "user_id" \notin DOMAIN Unwrap(returned).data
  /\ ReadNow(1) = Some(build(1, Unwrap(parked.returned).data))

\* C20: a request cancelled while the middleware awaits the handler has
\* issued no write, regenerate or invalidate; none of its steps from the
\* installation of its session to its cancellation changes the store; and
\* when no other request ran meanwhile the record under its key is still the
\* one it read.
C20_CancelNoWrite ==
  /\ [][(pc = "handler" /\ parked' = parked) =>
          (sessions' = sessions /\ redisDb' = redisDb)]_vars
  /\ [](pc = "cancelled" =>
          /\ PostCalls = <<>>
          /\ (parked # NoParked /\ parked.pc = "start") =>
               ReadNow(session_key) = read_result(driver, drv))

C20_Witness ==
  /\ pc = "cancelled"
  /\ parked # NoParked /\ parked.pc = "start"
  /\ budget = 2
  /\ drv.op = "read"
  /\ IsSome(ReadNow(session_key))


\* A driver operation that changes the store.
IsMutatingCall(c) == c.op \in {"create", "write", "regenerate", "invalidate"}

\* C21: from the arrival of a request to its response the middleware invokes
\* at most one of create, write, regenerate and invalidate.
C21_AtMostOnePersist == Len(SelectSeq(mwCalls, IsMutatingCall)) <= 1

\* C22: cookie_kind answers every name with one of Normal, Signed, Private:
\* the kind the policy's map records for the name when it is listed, otherwise
\* Normal under Inclusion and Private under Exclusion; the default policy is
\* an Inclusion that lists nothing.
C22_CookieKindTotal ==
  /\ default_policy.mode = "Inclusion" /\ DOMAIN default_policy.cookies = {}
  /\ kind_out # None =>
       /\ kind_out[1].kind \in CookieKind
       /\ kind_out[1].kind =
            (IF kind_out[1].key \in DOMAIN encryption_policy.cookies
             THEN encryption_policy.cookies[kind_out[1].key]
             ELSE IF encryption_policy.mode = "Inclusion" THEN "Normal"
             ELSE "Private")

\* An Exclusion policy that lists some name was asked about another one.
C22_Witness ==
  /\ kind_out # None
  /\ encryption_policy.mode = "Exclusion"
  /\ DOMAIN encryption_policy.cookies # {}
  /\ kind_out[1].key \notin DOMAIN encryption_policy.cookies
  /\ kind_out[1].kind = "Private"

\* The seal a kind of cookie is read through.
SealOf(kind) == IF kind = "Private" THEN "P" ELSE "S"

\* The cookie the jar was loaded with for a name: the last one of the request.
LastOf(cookies, i) == \A j \in DOMAIN cookies : j > i => cookies[j].name # cookies[i].name

\* C23: a request cookie of a Private or Signed name whose value does not
\* decrypt or verify is absent from the private or signed view of the jar
\* from_headers returns.
C23_TamperedAbsent ==
  cpc = "handler" =>
    \A i \in DOMAIN cookies_from_request(headers) :
      LET c == cookies_from_request(headers)[i]
          kind == cookie_kind(encryption_policy, c.name)
      IN  (/\ kind \in {"Private", "Signed"}
           /\ unseal(SealOf(kind), c.value) = None
           /\ LastOf(cookies_from_request(headers), i)
           /\ c.name \notin DOMAIN cookie_jar.delta)
          => sealed_get(SealOf(kind), cookie_jar, c.name) = None

\* A piece that is a name, '=' and a value in visible ASCII.
WellFormed(piece) == piece.eq /\ piece.name # "" /\ piece.ascii

RECURSIVE Flatten(_)
Flatten(hs) == IF hs = <<>> THEN <<>> ELSE Head(hs) \o Flatten(Tail(hs))

\* The well-formed pairs of all Cookie headers, in header order.
WellFormedPairs(hs) == SelectSeq(Flatten(hs), WellFormed)

\* C24: the cookies produced from the Cookie headers are the well-formed
\* pairs of all the headers, in header order, each with its name, its value
\* and the kind the policy gives its name; a malformed piece only removes
\* itself.
C24_MalformedDroppedAlone ==
  cpc = "handler" =>
    LET produced == typed_cookies_from_request(headers, encryption_policy)
        pairs == WellFormedPairs(headers)
    IN  /\ Len(produced) = Len(pairs)
        /\ \A i \in DOMAIN produced :
             /\ produced[i].cookie.name = pairs[i].name
             /\ produced[i].cookie.value = pairs[i].value
             /\ produced[i].kind = cookie_kind(encryption_policy, pairs[i].name)

\* The names of the cookies of a request's Cookie headers.
RequestNames(hs) ==
  {cookies_from_request(hs)[i].name : i \in DOMAIN cookies_from_request(hs)}

\* C25: the jar handed to a request holds the cookies of that request's
\* Cookie headers and no others, whatever the middleware has served before:
\* from_headers and call do not change the jar they are called on.
C25_JarOfThisRequest ==
  cpc = "handler" => DOMAIN cookie_jar.original = RequestNames(headers)

\* C26: the response gets one Set-Cookie header for each cookie the handler
\* added to the jar or changed in it, carrying the value it was given last,
\* and none for a cookie that was loaded from the request and left alone.
C26_SetCookiePerChange ==
  cpc = "responded" =>
    /\ Len(res_headers) = Cardinality(DOMAIN touched)
    /\ \A n \in DOMAIN touched :
         \E i \in DOMAIN res_headers :
           res_headers[i].name = n /\ res_headers[i].value = touched[n]
    /\ \A i \in DOMAIN res_headers : res_headers[i].name \in DOMAIN touched

\* The request brought two cookies; the handler changed one of them.
C26_Witness ==
  /\ cpc = "responded"
  /\ DOMAIN cookie_jar.original = {"id", "theme"}
  /\ DOMAIN touched = {"id"}
  /\ Len(res_headers) = 1

\* C27: a response returned without a driver error carries exactly one
\* session cookie: named "id", HttpOnly, with Max-Age the ttl of the driver in
\* seconds, and with the key the terminal driver operation returned as its
\* value, or the session's own key when there was no such operation.
C27_SessionCookie ==
  Responded =>
    /\ Len(response.set_cookie) = 1
    /\ response.set_cookie[1].name = "id"
    /\ response.set_cookie[1].http_only
    /\ response.set_cookie[1].max_age =
         (IF driver = "memory" THEN MemoryTtl ELSE RedisTtl)
    /\ response.set_cookie[1].value =
         (IF PostCalls # <<>>
          THEN (IF PostCalls[1].op = "write" THEN PostCalls[1].key ELSE drv.new_key)
          ELSE IF IsSome(returned) THEN Unwrap(returned).key
          ELSE session_key)

\* A request served with the Redis driver ended with a regenerated session.
C27_Witness ==
  /\ Responded
  /\ driver = "redis"
  /\ PostCalls # <<>>
  /\ PostCalls[1].op = "regenerate"
  /\ response.set_cookie[1].value # PostCalls[1].key
  /\ response.set_cookie[1].value \in DOMAIN redisDb

\* C28: NullDriver::read returns a session with the key asked for, no data
\* and state Unchanged, also when a write of data under that key came just
\* before; write returns its key, destroy succeeds, and nothing is stored.
C28_NullStoresNothing ==
  /\ sessions = EmptyStore /\ redisDb = EmptyStore
  /\ drv.op # "none" => drv.result = "ok"
  /\ drv.op = "read" =>
       /\ IsSome(drv.got)
       /\ Unwrap(drv.got).key = drv.key
       /\ Unwrap(drv.got).data = EmptyData
       /\ Unwrap(drv.got).state = "Unchanged"
  /\ drv.op = "write" => drv.got = Some(drv.key)

\* A read right after a write of data under the same key.
C28_Witness ==
  /\ drv.op = "read"
  /\ hist.last.op = "write"
  /\ hist.last.key = drv.key
  /\ hist.last.data # EmptyData
  /\ IsSome(drv.got)

\* The time gone by since the driver call in `drv` was made.
SinceCall == now - hist.at

\* C29: a record that a RedisDriver write, create, regenerate or invalidate
\* has set, or a read has hit, lives for the full ttl from that call on: as
\* long as less than ttl has gone by since the call it is there, with the
\* rest of the ttl to live, however old it was when it was read; a read
\* that misses leaves no record under its key and adds none.
C29_ExpiryRefreshed ==
  (driver = "redis" /\ drv.result = "ok") =>
    /\ (drv.op \in {"write", "create", "regenerate", "invalidate"}
          /\ SinceCall < RedisTtl) =>
         /\ driver_key(drv) \in DOMAIN redisDb
         /\ redisDb[driver_key(drv)].ex = RedisTtl - SinceCall
    /\ (drv.op = "read" /\ IsSome(drv.got) /\ SinceCall < RedisTtl) =>
         /\ drv.key \in DOMAIN redisDb
         /\ redisDb[drv.key].ex = RedisTtl - SinceCall
         /\ redisDb[drv.key].val = Unwrap(drv.got)
    /\ (drv.op = "read" /\ drv.got = None) =>
         /\ drv.key \notin DOMAIN redisDb
         /\ DOMAIN redisDb \subseteq DOMAIN hist.before

\* A record was read when it had one second left, and is still there almost
\* a whole ttl later.
C29_Witness ==
  /\ driver = "redis"
  /\ drv.op = "read" /\ drv.result = "ok" /\ IsSome(drv.got)
  /\ hist.at = RedisTtl - 1
  /\ now = 2 * RedisTtl - 2
  /\ hist.before[drv.key].ex = 1
  /\ drv.key \in DOMAIN redisDb

\* A read missed, because the record had expired.
C29_MissWitness ==
  /\ driver = "redis"
  /\ drv.op = "read" /\ drv.result = "ok" /\ drv.got = None
  /\ hist.at >= RedisTtl
  /\ drv.key # ForgedKey

\* The names a subset exposes, said without has().
Exposed(sub) ==
  IF sub.kind = "Only" THEN {sub.keys[i] : i \in DOMAIN sub.keys}
  ELSE Names \ {sub.keys[i] : i \in DOMAIN sub.keys}

\* C30: only(keys) exposes the entries named in keys and except(keys) the
\* entries not named in keys, and nothing else: get, get_ref and get_str
\* return nothing for a name outside the subset, also when the session holds
\* it; only(keys).to_all() and except(keys).to_all() share no entry and
\* together are all().
C30_SubsetExact ==
  IsSome(subset) =>
    LET sub == Unwrap(subset)
        s == Unwrap(session)
    IN  /\ \A k \in Names :
             /\ subset_get_ref(sub, k) =
                  (IF k \in Exposed(sub) /\ k \in DOMAIN s.data
                   THEN Some(s.data[k]) ELSE None)
             /\ k \notin Exposed(sub) =>
                  /\ subset_get_i32(sub, k) = None
                  /\ subset_get_str(sub, k) = None
             /\ (k \in Exposed(sub) /\ k \in DOMAIN s.data /\ s.data[k].kind = "str")
                  => subset_get_str(sub, k) = Some(s.data[k].n)
             /\ (k \in Exposed(sub) /\ k \in DOMAIN s.data /\ s.data[k].kind = "int")
                  => subset_get_i32(sub, k) = Some(s.data[k].n)
        /\ DOMAIN to_all(sub) = DOMAIN s.data \cap Exposed(sub)
        /\ \A k \in DOMAIN to_all(sub) : to_all(sub)[k] = s.data[k]
        /\ DOMAIN to_all(only(s, sub.keys)) \cap DOMAIN to_all(except(s, sub.keys)) = {}
        /\ DOMAIN to_all(only(s, sub.keys)) \cup DOMAIN to_all(except(s, sub.keys))
             = DOMAIN s.data

\* except(keys) of a session that holds a name of the list and one outside.
C30_Witness ==
  /\ IsSome(subset)
  /\ Unwrap(subset).kind = "Except"
  /\ Unwrap(subset).keys = <<"user_id", "user_id">>
  /\ DOMAIN Unwrap(session).data = {"_token", "user_id"}
  /\ subset_get_ref(Unwrap(subset), "user_id") = None
  /\ DOMAIN to_all(Unwrap(subset)) = {"_token"}

\* C31: into_session() returns a session with the parent's key, exactly the
\* parent's entries that belong to the subset, and the state
\* transition(parent state, Changed): Changed for an Unchanged parent, the
\* parent's own state otherwise.
C31_IntoSession ==
  [][(IsSome(subset) /\ subset' = None) =>
       LET sub == Unwrap(subset)
           p == Unwrap(session)
           s == Unwrap(returned')
       IN  /\ IsSome(returned')
           /\ s.key = p.key
           /\ DOMAIN s.data = DOMAIN p.data \cap Exposed(sub)
           /\ \A k \in DOMAIN s.data : s.data[k] = p.data[k]
           /\ s.state = (IF p.state = "Unchanged" THEN "Changed" ELSE p.state)
           /\ session' = session]_vars

\* A subset of an Unchanged parent that leaves an entry out became a
\* Changed session.
C31_Witness ==
  /\ subset = None
  /\ overflow_checks = TRUE
  /\ IsSome(returned)
  /\ Unwrap(session).state = "Unchanged"
  /\ Unwrap(returned).state = "Changed"
  /\ Unwrap(returned).key = Unwrap(session).key
  /\ DOMAIN Unwrap(returned).data = {"user_id"}
  /\ DOMAIN Unwrap(session).data = {"_token", "user_id"}

\* The key and the amount of a call, and the value it read.
KeyOf(call) == CHOOSE k \in call.ks : TRUE
ReadBy(i) == counter(trail[i], KeyOf(calls[i]))

\* C32: increment_by(key, n) stores v + n under key, v being the value of key
\* read as an i32 or 0, and leaves every other entry unchanged;
\* decrement_by(key, n) gives the session increment_by(key, -n) gives; and
\* while v + n stays within the i32 range, increment_by(key, n) followed by
\* decrement_by(key, n) restores v.  A call that panics gives no session, and
\* a sum that left the range is not v + n.
C32_CounterArithmetic ==
  /\ \A i \in DOMAIN calls :
       LET k == KeyOf(calls[i])
           n == calls[i].n
           before == trail[i]
           returns == i < Len(calls) \/ pc = "handler"
           after == IF i < Len(calls) THEN trail[i + 1] ELSE Unwrap(session)
       IN  /\ returns
           /\ calls[i].op = "increment_by" =>
                /\ ~add_overflows(ReadBy(i), n)
                /\ after.data = DataInsert(before.data, k, Num(ReadBy(i) + n))
           /\ calls[i].op = "decrement_by" =>
                /\ ~neg_overflows(n)
                /\ after = increment_by(before, k, 0 - n)
  /\ \A i \in DOMAIN calls :
       (/\ i + 1 \in DOMAIN calls
        /\ calls[i].op = "increment_by"
        /\ calls[i + 1].op = "decrement_by"
        /\ calls[i + 1].ks = calls[i].ks
        /\ calls[i + 1].n = calls[i].n
        /\ ~add_overflows(ReadBy(i), calls[i].n)) =>
          /\ pc = "handler"
          /\ i + 1 = Len(calls) => counter(Unwrap(session), KeyOf(calls[i])) = ReadBy(i)

\* C33: every session the middleware hands to a handler holds the reserved
\* `_token` entry, also the session read back through the cookie issued
\* after a request that ended with invalidate() or flush().  (Every record of
\* the store was created by the middleware: the store starts empty.)
C33_TokenPresent ==
  (pc = "handler" /\ calls = <<>> /\ IsSome(session)) =>
    "_token" \in DOMAIN Unwrap(session).data

\* C34: RedisDriver.retry terminates for every sequence of transport
\* outcomes, a transport that drops the connection at every attempt included:
\* a call that is pending returns, and it has made at most two attempts.
C34_RetryTerminates ==
  /\ [](Len(drv.outcomes) <= 2)
  /\ (drv.result = "pending") ~> (drv.result # "pending")

\* The connection dropped and the call returned the "loop exited" error.
C34_Witness ==
  /\ driver = "redis"
  /\ drv.outcomes = <<"dropped">>
  /\ drv.result = "err"
  /\ drv.err = "retry_exit"

\* C35: once a regenerate or an invalidate has removed the record under key
\* k, no record exists under k in any later state, also when another request
\* that read k before the removal finishes after it.  (Key 1 is the session
\* the two requests share; the middleware removes a record only through
\* regenerate and invalidate.)
C35_RemovedStaysRemoved ==
  [][(1 \notin DOMAIN Store) => (1 \notin DOMAIN Store')]_vars

\* The request presented a cookie, the read found nothing and the middleware
\* went on to create a session.
CreatedOnMiss ==
  /\ IsSome(cookie)
  /\ Len(mwCalls) >= 2
  /\ mwCalls[1].op = "read"
  /\ mwCalls[2].op = "create"

\* C36: with MemoryDriver or RedisDriver the middleware never stores a record
\* under a key chosen by the client: every key of the store was generated by
\* create, regenerate or invalidate; and a request whose cookie names a key
\* without a record gets a session under a newly generated key, which the
\* response cookie carries.
C36_NoClientChosenKey ==
  /\ ForgedKey \notin DOMAIN Store
  /\ DOMAIN Store \subseteq used
  /\ (CreatedOnMiss /\ pc = "handler") =>
       /\ Unwrap(session).key # Unwrap(cookie)
       /\ Unwrap(session).key \in used
  /\ (CreatedOnMiss /\ Responded) =>
       /\ Len(response.set_cookie) = 1
       /\ CookieOut # Unwrap(cookie)
       /\ CookieOut \in used

\* A request with a made-up key ended with a cookie for a stored session.
C36_Witness ==
  /\ CreatedOnMiss
  /\ Responded
  /\ cookie = Some(ForgedKey)
  /\ CookieOut \in DOMAIN Store
  /\ IsSome(returned)
  /\ Unwrap(returned).state = "Changed"

\* A request that ended on a failed driver call has the error response, and
\* no session was installed when the call was the read or the create.
ErrorEnded ==
  (pc = "done" /\ drv.result = "err") =>
    /\ response = [kind |-> "error", ext |-> None, set_cookie |-> <<>>]
    /\ (drv.op \in {"read", "create"} =>
          /\ session = None
          /\ returned = None
          /\ calls = <<>>)

\* C37: whenever a driver call made by the middleware fails, the response is
\* the error handler's and carries no session Set-Cookie; when the initial
\* read or create fails the inner handler is never invoked (no session is
\* installed and the request goes nowhere but to the error response), and
\* when the terminal operation fails the handler's response is discarded.
C37_ErrorHandled ==
  [][/\ ErrorEnded'
     /\ (drv.result = "err" /\ pc \in {"read", "create", "terminal"}) =>
          (pc' = pc \/ (pc' = "done" /\ response'.kind = "error"))
     /\ (pc' = "handler" /\ pc # "handler") =>
          (drv.result = "ok" /\ drv.op \in {"read", "create"})]_vars

\* The terminal regenerate failed after the handler had returned a session.
C37_Witness ==
  /\ pc = "done"
  /\ drv.result = "err"
  /\ drv.op = "regenerate"
  /\ IsSome(returned)
  /\ response.kind = "error"
  /\ response.set_cookie = <<>>

\* The create after a read miss failed: no handler ran.
C37_CreateWitness ==
  /\ pc = "done"
  /\ drv.result = "err"
  /\ drv.op = "create"
  /\ IsSome(cookie)
  /\ session = None

\* The key bound before the handler is the installed session's, and a
\* request that ended without a returned session used it for the cookie.
KeyKept ==
  /\ (pc = "handler") => session_key = Unwrap(session).key
  /\ (Responded /\ returned = None) =>
       /\ PostCalls = <<>>
       /\ Len(response.set_cookie) = 1
       /\ CookieOut = session_key

\* C38: when the handler's response carries no Session the middleware
\* invokes no driver operation after the handler and sets the session cookie
\* to the key of the session it installed before the handler; what the
\* handler did to its session value is not persisted (the store does not
\* change from the moment the session is installed).
C38_NoSessionNoPersist ==
  [][/\ KeyKept'
     /\ (pc = "handler" \/ (pc = "after" /\ response.ext = None)) =>
          (sessions' = sessions /\ redisDb' = redisDb)]_vars

\* The handler of the first request inserted a value and returned a response
\* without its session: the record still holds the token alone.
C38_Witness ==
  /\ Responded
  /\ returned = None
  /\ requests = 1
  /\ budget >= 1
  /\ prev = NoPrev
  /\ CookieOut = session_key
  /\ IsSome(ReadNow(CookieOut))
  /\ DOMAIN Unwrap(ReadNow(CookieOut)).data = {"_token"}

\* C39: in the default regenerate (create, then destroy): when create fails,
\* destroy is not attempted, the error is returned and the store is as it was
\* (the record under the old key included); when destroy fails after create
\* succeeded, the error is returned, no key is returned, and the new record
\* exists next to the old one, which is as it was.
C39_DefaultRegenerateErrors ==
  (driver = "fallible" /\ drv.op = "regenerate" /\ drv.result = "err") =>
    /\ drv.err = "operation"
    /\ drv.i \in {1, 2}
    /\ drv.i = 1 =>
         /\ drv.cmds[1] = Cmd("SET", drv.new_key, drv.data)
         /\ Store = hist.before
    /\ drv.i = 2 =>
         /\ drv.cmds[2] = Cmd("DEL", drv.key, EmptyData)
         /\ drv.new_key \in DOMAIN Store
         /\ Store[drv.new_key] = build(drv.new_key, drv.data)
         /\ \A k \in DOMAIN hist.before :
              k \in DOMAIN Store /\ Store[k] = hist.before[k]

\* destroy failed after create succeeded: the old and the new record exist.
C39_Witness ==
  /\ driver = "fallible"
  /\ drv.op = "regenerate"
  /\ drv.result = "err"
  /\ drv.i = 2
  /\ drv.key \in DOMAIN Store
  /\ drv.new_key \in DOMAIN Store
  /\ drv.key # drv.new_key

\* create failed: nothing changed, the old record is still there.
C39_CreateWitness ==
  /\ driver = "fallible"
  /\ drv.op = "regenerate"
  /\ drv.result = "err"
  /\ drv.i = 1
  /\ drv.key \in DOMAIN Store

====
